---- MODULE Spec2Model ----
(***************************************************************************)
(* A model of the TRE archive engine of swg-rs (crate swg_tre): the block  *)
(* codec, the archive writer (TreWriter) and the archive reader            *)
(* (TreArchive).  Archives are modelled at the byte level: a byte is a     *)
(* natural number in 0..255 and a byte string is a sequence of bytes.      *)
(***************************************************************************)
EXTENDS Naturals, Sequences, FiniteSets, TLC

(***************************************************************************)
(* Bounds of the model.                                                    *)
(***************************************************************************)
\* the largest number of start_file calls made on one writer
MaxEntries == 2
\* the largest number of accepted write calls made on one writer
MaxWrites == 2
\* the most value records, and key records, of a string table
MaxRecords == 2
\* the most entry readers one archive hands out, one after the other
MaxOpens == 2

(***************************************************************************)
(* Program constants.                                                      *)
(***************************************************************************)
\* size of the serialized TreHeader: 8 magic bytes and seven u32 fields
HEADER_SIZE == 36
\* size of one serialized TreRecord: six u32 fields
RECORD_SIZE == 24

\* b"EERT5000"
MAGIC == <<69, 69, 82, 84, 53, 48, 48, 48>>

(***************************************************************************)
(* Inputs of the model.                                                    *)
(***************************************************************************)
\* the entry names passed to start_file: "a", "ab", and "b\0c", a string
\* with an interior NUL character (a legal Rust String, as any
\* `impl ToString` value may be)
NameSet == { <<97>>, <<97, 98>>, <<98, 0, 99>> }
\* a name no entry ever has: "zz"
MissingName == <<122, 122>>
\* the buffer passed to the k-th accepted write call of a run: the caller's
\* data comes in chunks of one and two bytes, no byte value used twice
Chunk(k) == IF k % 2 = 1 THEN << 16 * k >> ELSE << 16 * k, (16 * k) + 1 >>
\* the compression methods
Methods == { "None", "Zlib" }

(***************************************************************************)
(* Byte-string helpers.                                                    *)
(***************************************************************************)
Min(a, b) == IF a < b THEN a ELSE b

\* the bytes of s from 0-based offset `from`, at most `n` of them
Slice(s, from, n) ==
    IF from >= Len(s) \/ n = 0 THEN << >>
    ELSE SubSeq(s, from + 1, Min(Len(s), from + n))

\* a u32 in little-endian byte order (binrw, #[brw(little)])
LE32(v) ==
    << v % 256, (v \div 256) % 256, (v \div 65536) % 256, (v \div 16777216) % 256 >>

\* the u32 stored little-endian at 0-based offset `at` of s (4 bytes must
\* exist).  The model checker's integers end at 2^31 - 1: a value of 2^30 or
\* more is read as 2^30 - 1, which like the value itself is no compression
\* tag and lies beyond the end of every source of the model.
ReadLE32(s, at) ==
    IF s[at + 4] >= 64 THEN 1073741823
    ELSE s[at + 1] + (256 * s[at + 2]) + (65536 * s[at + 3]) + (16777216 * s[at + 4])

\* `x as u32`.  Every length and offset of the model is far below 2^31 (the
\* range of the model checker's integers), where the truncation to 32 bits
\* changes nothing.
AsU32(x) == x

RECURSIVE SumSeq(_)
SumSeq(s) == IF s = << >> THEN 0 ELSE Head(s) + SumSeq(Tail(s))

RECURSIVE Concat(_)
\* the concatenation of a sequence of byte strings
Concat(ss) == IF ss = << >> THEN << >> ELSE Head(ss) \o Concat(Tail(ss))

(***************************************************************************)
(* Bit operations on bytes, for the checksums.                             *)
(***************************************************************************)
RECURSIVE Xor8(_, _)
\* the bitwise exclusive or of two bytes
Xor8(a, b) ==
    IF a = 0 THEN b
    ELSE IF b = 0 THEN a
    ELSE (((a % 2) + (b % 2)) % 2) + (2 * Xor8(a \div 2, b \div 2))

\* A 32-bit word is kept as its four bytes, most significant first.
\* CRC_32_BZIP2: poly 0x04C11DB7, init 0xFFFFFFFF, no reflection,
\* xorout 0xFFFFFFFF
CrcPoly == <<4, 193, 29, 183>>

\* one step of the bitwise CRC: shift the word left by one bit and, when the
\* bit shifted out is set, xor the polynomial in
CrcShift(w) ==
    LET top == w[1] \div 128
        sh  == << ((w[1] * 2) % 256) + (w[2] \div 128),
                  ((w[2] * 2) % 256) + (w[3] \div 128),
                  ((w[3] * 2) % 256) + (w[4] \div 128),
                  (w[4] * 2) % 256 >>
    IN  IF top = 1
        THEN << Xor8(sh[1], CrcPoly[1]), Xor8(sh[2], CrcPoly[2]),
                Xor8(sh[3], CrcPoly[3]), Xor8(sh[4], CrcPoly[4]) >>
        ELSE sh

RECURSIVE CrcShifts(_, _)
CrcShifts(w, n) == IF n = 0 \/ Len(w) # 4 THEN w ELSE CrcShifts(CrcShift(w), n - 1)

RECURSIVE CrcUpdate(_, _)
CrcUpdate(w, s) ==
    IF s = << >> \/ Len(w) # 4 THEN w
    ELSE CrcUpdate(CrcShifts(<<Xor8(w[1], Head(s)), w[2], w[3], w[4]>>, 8), Tail(s))

\* the CRC-32/BZIP2 of the bytes s, as the four bytes of its little-endian
\* encoding
CrcCompute(s) ==
    LET w == CrcUpdate(<<255, 255, 255, 255>>, s)
    IN  << 255 - w[4], 255 - w[3], 255 - w[2], 255 - w[1] >>

\* the checksums of the names of the model, computed once
CrcTable == [n \in NameSet |-> CrcCompute(n)]

\* crc::Crc::<u32>::new(&crc::CRC_32_BZIP2).checksum(bytes)
Crc32Bzip2(s) == IF s \in NameSet THEN CrcTable[s] ELSE CrcCompute(s)

\* the Adler-32 checksum that ends a zlib stream, most significant byte first:
\* a = 1 + the sum of the bytes, b = the sum of the values a takes, both
\* modulo 65521.  Four bytes are summed per step where four are left.
Adler32BE(s) ==
    LET RECURSIVE Go(_, _, _)
        Go(a, b, i) ==
            IF i > Len(s) \/ a + b < 0
            THEN << b \div 256, b % 256, a \div 256, a % 256 >>
            ELSE IF i + 3 <= Len(s)
            THEN Go((a + s[i] + s[i + 1] + s[i + 2] + s[i + 3]) % 65521,
                    (b + (4 * a) + (4 * s[i]) + (3 * s[i + 1]) + (2 * s[i + 2])
                       + s[i + 3]) % 65521,
                    i + 4)
            ELSE Go((a + s[i]) % 65521, (b + a + s[i]) % 65521, i + 1)
    IN  Go(1, 0, 1)

\* Md5::new().update(bytes).finalize(): a 16-byte digest.  The digest
\* function itself belongs to the md5 crate; the model keeps that it is a
\* function of the bytes hashed, 16 bytes long, and tells apart the byte
\* strings of the model (their length, sum and position-weighted sum).
Md5(s) ==
    LET RECURSIVE Weighted(_, _)
        Weighted(r, i) ==
            IF r = << >> THEN 0 ELSE (i * Head(r)) + Weighted(Tail(r), i + 1)
        w == Weighted(s, 1)
    IN  << Len(s) % 256, SumSeq(s) % 256, w % 256, (w \div 256) % 256,
           212, 29, 140, 217, 143, 0, 178, 4, 233, 128, 9, 152 >>

\* the length of an MD5 digest
DIGEST_SIZE == Len(Md5(<< >>))

(***************************************************************************)
(* Compression methods and the zlib codec.                                 *)
(***************************************************************************)
\* CompressionMethod as its u32 representation, #[brw(repr=u32)]
MethodTag(m) == IF m = "None" THEN 0 ELSE 2

\* the u32 values that decode to a CompressionMethod
ValidTag(t) == t = 0 \/ t = 2

TagMethod(t) == IF t = 0 THEN "None" ELSE "Zlib"

\* <CompressionMethod as From<u32>>::from: the method, or the panic of
\* unreachable!() for a value that is neither 0 nor 2
From_u32(value) ==
    IF value = 0 THEN [res |-> "Ok", method |-> "None"]
    ELSE IF value = 2 THEN [res |-> "Ok", method |-> "Zlib"]
    ELSE [res |-> "Panic", method |-> "none"]

\* ZlibEncoder::finish: the zlib stream holding s.  The stream is the zlib
\* header, the deflate data and the Adler-32 of s.  The deflate data is
\* written here as one final stored block (01, LEN, NLEN, the bytes): the
\* Huffman coding flate2 picks is one of the encodings zlib allows and is
\* left to the library, so the compressed lengths of the model are those of
\* a level-0 stream.
ZlibEncode(s) ==
    << 120, 1 >> \o << 1, Len(s) % 256, Len(s) \div 256 >>
        \o << 255 - (Len(s) % 256), 255 - (Len(s) \div 256) >>
        \o s \o Adler32BE(s)

\* the length of the framing ZlibEncode adds
ZlibOverhead == Len(ZlibEncode(<< >>))

\* ZlibDecoder over the bytes b (what io::Take lets through): the decoded
\* bytes, or an error when the header, the block framing or the Adler-32
\* is wrong or the stream is cut short.  Bytes after the end of the stream
\* are not read.
ZlibDecode(b) ==
    IF Len(b) < 7 THEN [ok |-> FALSE, data |-> << >>]
    ELSE LET n == b[4] + (256 * b[5])
         IN  IF /\ b[1] % 16 = 8
                /\ b[1] \div 16 <= 7
                /\ ((256 * b[1]) + b[2]) % 31 = 0
                /\ (b[2] \div 32) % 2 = 0
                /\ b[3] = 1
                /\ b[6] = 255 - b[4]
                /\ b[7] = 255 - b[5]
                /\ Len(b) >= 7 + n + 4
                /\ SubSeq(b, 8 + n, 11 + n) = Adler32BE(SubSeq(b, 8, 7 + n))
             THEN [ok |-> TRUE, data |-> SubSeq(b, 8, 7 + n)]
             ELSE [ok |-> FALSE, data |-> << >>]

(***************************************************************************)
(* TreBlockWriter over a Cursor<Vec<u8>>.                                  *)
(* kind "Raw": `data` is the vector written so far and `count` the usize   *)
(* counter beside it.  kind "Compressed": `data` is the input the encoder  *)
(* has consumed and `count` its total_in.                                  *)
(***************************************************************************)
BlockWriter_new(compression) ==
    [kind  |-> IF compression = "None" THEN "Raw" ELSE "Compressed",
     data  |-> << >>,
     count |-> 0]

\* <TreBlockWriter as Write>::write; every byte is accepted by a Vec
BlockWriter_write(bw, buf) ==
    [bw EXCEPT !.data = @ \o buf, !.count = @ + Len(buf)]

BlockWriter_total_in(bw) == bw.count

\* TreBlockWriter::finalize(..).into_inner(): the bytes of the block
BlockWriter_finalize(bw) ==
    IF bw.kind = "Raw" THEN bw.data ELSE ZlibEncode(bw.data)

(***************************************************************************)
(* TreHeader and TreRecord, and their serialization.                       *)
(***************************************************************************)
\* TreHeader::default() with the two methods of the options
Header_new(options) ==
    [records            |-> 0,
     record_start       |-> HEADER_SIZE,
     record_compression |-> options.record_compression,
     record_compressed  |-> 0,
     name_compression   |-> options.name_compression,
     name_compressed    |-> 0,
     name_uncompressed  |-> 0]

\* TreRecord::default(); the checksum is kept as its four little-endian bytes
Record_default ==
    [checksum          |-> <<0, 0, 0, 0>>,
     data_uncompressed |-> 0,
     data_offset       |-> 0,
     data_compression  |-> "Zlib",
     data_compressed   |-> 0,
     name_offset       |-> 0]

\* TreHeader::write
Header_bytes(h) ==
    MAGIC \o LE32(h.records) \o LE32(h.record_start)
          \o LE32(MethodTag(h.record_compression)) \o LE32(h.record_compressed)
          \o LE32(MethodTag(h.name_compression)) \o LE32(h.name_compressed)
          \o LE32(h.name_uncompressed)

\* TreRecord::write
Record_bytes(r) ==
    r.checksum \o LE32(r.data_uncompressed) \o LE32(r.data_offset)
               \o LE32(MethodTag(r.data_compression)) \o LE32(r.data_compressed)
               \o LE32(r.name_offset)

(***************************************************************************)
(* TreWriter.                                                              *)
(***************************************************************************)
NoBlock == [kind |-> "NoBlock", data |-> << >>, count |-> 0]

\* TreWriter::new
TreWriter_new(inner, options) ==
    [inner              |-> inner,
     writing_to_file    |-> FALSE,
     info_block         |-> BlockWriter_new(options.record_compression),
     data_block         |-> BlockWriter_new("None"),
     current_data_block |-> NoBlock,
     name_block         |-> BlockWriter_new(options.name_compression),
     hash_block         |-> BlockWriter_new("None"),
     stats              |-> [info_offset |-> 0, name_offset |-> 0],
     header             |-> Header_new(options),
     record             |-> Record_default]

\* TreWriter::is_writing_file
is_writing_file(w) == w.writing_to_file

\* finish_file hashing the bytes given to the entry in place of the bytes
\* stored for it
finish_file_hash_input(w) ==
    IF w.current_data_block = NoBlock
    THEN [w   |-> [w EXCEPT !.stats.info_offset = @ + RECORD_SIZE],
          res |-> "Panic"]
    ELSE LET current_block      == w.current_data_block
             block_total_in     == BlockWriter_total_in(current_block)
             current_block_data == BlockWriter_finalize(current_block)
             record == [w.record EXCEPT
                           !.data_uncompressed = AsU32(block_total_in),
                           !.data_compressed   = AsU32(Len(current_block_data))]
         IN  [w   |-> [w EXCEPT
                          !.stats.info_offset = @ + RECORD_SIZE,
                          !.current_data_block = NoBlock,
                          !.record = record,
                          !.info_block = BlockWriter_write(@, Record_bytes(record)),
                          !.data_block = BlockWriter_write(@, current_block_data),
                          !.hash_block = BlockWriter_write(@, Md5(current_block.data)),
                          !.writing_to_file = FALSE],
              res |-> "Ok"]

\* finish_file writing the payload of the entry through to the sink
finish_file_writes_through(w) ==
    IF w.current_data_block = NoBlock
    THEN [w   |-> [w EXCEPT !.stats.info_offset = @ + RECORD_SIZE],
          res |-> "Panic"]
    ELSE LET current_block      == w.current_data_block
             block_total_in     == BlockWriter_total_in(current_block)
             current_block_data == BlockWriter_finalize(current_block)
             record == [w.record EXCEPT
                           !.data_uncompressed = AsU32(block_total_in),
                           !.data_compressed   = AsU32(Len(current_block_data))]
         IN  [w   |-> [w EXCEPT
                          !.stats.info_offset = @ + RECORD_SIZE,
                          !.current_data_block = NoBlock,
                          !.record = record,
                          !.info_block = BlockWriter_write(@, Record_bytes(record)),
                          !.data_block = BlockWriter_write(@, current_block_data),
                          !.inner = @ \o current_block_data,
                          !.hash_block = BlockWriter_write(@, Md5(current_block_data)),
                          !.writing_to_file = FALSE],
              res |-> "Ok"]

\* finish_file adding the sizes of the entry to those the record still
\* holds of the entry before
finish_file_sizes_carried(w) ==
    IF w.current_data_block = NoBlock
    THEN [w   |-> [w EXCEPT !.stats.info_offset = @ + RECORD_SIZE],
          res |-> "Panic"]
    ELSE LET current_block      == w.current_data_block
             block_total_in     == BlockWriter_total_in(current_block)
             current_block_data == BlockWriter_finalize(current_block)
             record == [w.record EXCEPT
                           !.data_uncompressed = AsU32(@ + block_total_in),
                           !.data_compressed   = AsU32(@ + Len(current_block_data))]
         IN  [w   |-> [w EXCEPT
                          !.stats.info_offset = @ + RECORD_SIZE,
                          !.current_data_block = NoBlock,
                          !.record = record,
                          !.info_block = BlockWriter_write(@, Record_bytes(record)),
                          !.data_block = BlockWriter_write(@, current_block_data),
                          !.hash_block = BlockWriter_write(@, Md5(current_block_data)),
                          !.writing_to_file = FALSE],
              res |-> "Ok"]

\* finish_file leaving the writer marked as writing an entry
finish_file_keeps_writing(w) ==
    IF w.current_data_block = NoBlock
    THEN [w   |-> [w EXCEPT !.stats.info_offset = @ + RECORD_SIZE],
          res |-> "Panic"]
    ELSE LET current_block      == w.current_data_block
             block_total_in     == BlockWriter_total_in(current_block)
             current_block_data == BlockWriter_finalize(current_block)
             record == [w.record EXCEPT
                           !.data_uncompressed = AsU32(block_total_in),
                           !.data_compressed   = AsU32(Len(current_block_data))]
         IN  [w   |-> [w EXCEPT
                          !.stats.info_offset = @ + RECORD_SIZE,
                          !.current_data_block = NoBlock,
                          !.record = record,
                          !.info_block = BlockWriter_write(@, Record_bytes(record)),
                          !.data_block = BlockWriter_write(@, current_block_data),
                          !.hash_block = BlockWriter_write(@, Md5(current_block_data)),
                          !.writing_to_file = TRUE],
              res |-> "Ok"]

\* TreWriter::finish_file.  res is "Panic" when the expect on the current
\* data block fails.
finish_file(w) ==
    IF w.current_data_block = NoBlock
    THEN [w   |-> [w EXCEPT !.stats.info_offset = @ + RECORD_SIZE],
          res |-> "Panic"]
    ELSE LET current_block      == w.current_data_block
             block_total_in     == BlockWriter_total_in(current_block)
             current_block_data == BlockWriter_finalize(current_block)
             record == [w.record EXCEPT
                           !.data_uncompressed = AsU32(block_total_in),
                           !.data_compressed   = AsU32(Len(current_block_data))]
         IN  [w   |-> [w EXCEPT
                          !.stats.info_offset = @ + RECORD_SIZE,
                          !.current_data_block = NoBlock,
                          !.record = record,
                          !.info_block = BlockWriter_write(@, Record_bytes(record)),
                          !.data_block = BlockWriter_write(@, current_block_data),
                          !.hash_block = BlockWriter_write(@, Md5(current_block_data)),
                          !.writing_to_file = FALSE],
              res |-> "Ok"]

\* start_file taking the data offset before the entry still open has been
\* finalised into the data block
start_file_stale_offset(w, name, compression) ==
    LET fin == IF w.writing_to_file THEN finish_file(w) ELSE [w |-> w, res |-> "Ok"]
        w1  == fin.w
    IN  IF fin.res # "Ok" THEN fin
        ELSE IF w1.current_data_block # NoBlock THEN [w |-> w1, res |-> "Panic"]
        ELSE LET name_block == BlockWriter_write(
                                   BlockWriter_write(w1.name_block, name), <<0>>)
             IN  [w   |-> [w1 EXCEPT
                              !.current_data_block = BlockWriter_new(compression),
                              !.header.records = @ + 1,
                              !.name_block = name_block,
                              !.record.data_compression = compression,
                              !.record.checksum = Crc32Bzip2(name),
                              !.record.data_offset =
                                  AsU32(HEADER_SIZE + BlockWriter_total_in(w.data_block)),
                              !.record.name_offset = w1.stats.name_offset,
                              !.stats.name_offset =
                                  AsU32(BlockWriter_total_in(name_block)),
                              !.writing_to_file = TRUE],
                  res |-> "Ok"]

\* start_file taking the record's name offset after the name has been
\* written to the name block
start_file_late_name_offset(w, name, compression) ==
    LET fin == IF w.writing_to_file THEN finish_file(w) ELSE [w |-> w, res |-> "Ok"]
        w1  == fin.w
    IN  IF fin.res # "Ok" THEN fin
        ELSE IF w1.current_data_block # NoBlock THEN [w |-> w1, res |-> "Panic"]
        ELSE LET name_block == BlockWriter_write(
                                   BlockWriter_write(w1.name_block, name), <<0>>)
             IN  [w   |-> [w1 EXCEPT
                              !.current_data_block = BlockWriter_new(compression),
                              !.header.records = @ + 1,
                              !.name_block = name_block,
                              !.record.data_compression = compression,
                              !.record.checksum = Crc32Bzip2(name),
                              !.record.data_offset =
                                  AsU32(HEADER_SIZE + BlockWriter_total_in(w1.data_block)),
                              !.record.name_offset =
                                  AsU32(BlockWriter_total_in(name_block)),
                              !.stats.name_offset =
                                  AsU32(BlockWriter_total_in(name_block)),
                              !.writing_to_file = TRUE],
                  res |-> "Ok"]

\* start_file taking the checksum of the name with its terminating NUL
start_file_crc_with_nul(w, name, compression) ==
    LET fin == IF w.writing_to_file THEN finish_file(w) ELSE [w |-> w, res |-> "Ok"]
        w1  == fin.w
    IN  IF fin.res # "Ok" THEN fin
        ELSE IF w1.current_data_block # NoBlock THEN [w |-> w1, res |-> "Panic"]
        ELSE LET name_block == BlockWriter_write(
                                   BlockWriter_write(w1.name_block, name), <<0>>)
             IN  [w   |-> [w1 EXCEPT
                              !.current_data_block = BlockWriter_new(compression),
                              !.header.records = @ + 1,
                              !.name_block = name_block,
                              !.record.data_compression = compression,
                              !.record.checksum = Crc32Bzip2(name \o <<0>>),
                              !.record.data_offset =
                                  AsU32(HEADER_SIZE + BlockWriter_total_in(w1.data_block)),
                              !.record.name_offset = w1.stats.name_offset,
                              !.stats.name_offset =
                                  AsU32(BlockWriter_total_in(name_block)),
                              !.writing_to_file = TRUE],
                  res |-> "Ok"]

\* TreWriter::start_file.  res is "Panic" when finish_file panics or the
\* assertion that no current data block exists fails.
start_file(w, name, compression) ==
    LET fin == IF w.writing_to_file THEN finish_file(w) ELSE [w |-> w, res |-> "Ok"]
        w1  == fin.w
    IN  IF fin.res # "Ok" THEN fin
        ELSE IF w1.current_data_block # NoBlock THEN [w |-> w1, res |-> "Panic"]
        ELSE LET name_block == BlockWriter_write(
                                   BlockWriter_write(w1.name_block, name), <<0>>)
             IN  [w   |-> [w1 EXCEPT
                              !.current_data_block = BlockWriter_new(compression),
                              !.header.records = @ + 1,
                              !.name_block = name_block,
                              !.record.data_compression = compression,
                              !.record.checksum = Crc32Bzip2(name),
                              !.record.data_offset =
                                  AsU32(HEADER_SIZE + BlockWriter_total_in(w1.data_block)),
                              !.record.name_offset = w1.stats.name_offset,
                              !.stats.name_offset =
                                  AsU32(BlockWriter_total_in(name_block)),
                              !.writing_to_file = TRUE],
                  res |-> "Ok"]

\* write without the check that an entry is open
write_unchecked(w, buf) ==
    IF w.current_data_block = NoBlock
    THEN [w |-> w, res |-> "Panic", n |-> 0]
    ELSE [w   |-> [w EXCEPT !.current_data_block = BlockWriter_write(@, buf)],
          res |-> "Ok",
          n   |-> Len(buf)]

\* write leaving an empty data block behind when it refuses the bytes
write_leaves_block(w, buf) ==
    IF ~w.writing_to_file
    THEN [w   |-> [w EXCEPT !.current_data_block = BlockWriter_new("None")],
          res |-> "NoFileStarted",
          n   |-> 0]
    ELSE IF w.current_data_block = NoBlock
    THEN [w |-> w, res |-> "Panic", n |-> 0]
    ELSE [w   |-> [w EXCEPT !.current_data_block = BlockWriter_write(@, buf)],
          res |-> "Ok",
          n   |-> Len(buf)]

\* <TreWriter as Write>::write.  res is "NoFileStarted" for the io::Error
\* "No file has been started", and n the number of bytes accepted.
write(w, buf) ==
    IF ~w.writing_to_file
    THEN [w |-> w, res |-> "NoFileStarted", n |-> 0]
    ELSE IF w.current_data_block = NoBlock
    THEN [w |-> w, res |-> "Panic", n |-> 0]
    ELSE [w   |-> [w EXCEPT !.current_data_block = BlockWriter_write(@, buf)],
          res |-> "Ok",
          n   |-> Len(buf)]

\* finish writing the name block ahead of the record block
finish_names_first(w) ==
    LET fin == IF w.writing_to_file THEN finish_file(w) ELSE [w |-> w, res |-> "Ok"]
        w1  == fin.w
        data_block == BlockWriter_finalize(w1.data_block)
        info_block == BlockWriter_finalize(w1.info_block)
        name_block == BlockWriter_finalize(w1.name_block)
        header == [w1.header EXCEPT
                      !.record_start      = AsU32(HEADER_SIZE + Len(data_block)),
                      !.record_compressed = AsU32(Len(info_block)),
                      !.name_uncompressed = AsU32(BlockWriter_total_in(w1.name_block)),
                      !.name_compressed   = AsU32(Len(name_block))]
    IN  IF fin.res # "Ok" THEN fin
        ELSE [w   |-> [w1 EXCEPT
                          !.header = header,
                          !.inner = @ \o Header_bytes(header) \o data_block
                                      \o name_block \o info_block
                                      \o BlockWriter_finalize(w1.hash_block)],
              res |-> "Ok"]

\* finish leaving an entry that is still open out of the archive
finish_open_entry_dropped(w) ==
    LET data_block == BlockWriter_finalize(w.data_block)
        info_block == BlockWriter_finalize(w.info_block)
        name_block == BlockWriter_finalize(w.name_block)
        header == [w.header EXCEPT
                      !.record_start      = AsU32(HEADER_SIZE + Len(data_block)),
                      !.record_compressed = AsU32(Len(info_block)),
                      !.name_uncompressed = AsU32(BlockWriter_total_in(w.name_block)),
                      !.name_compressed   = AsU32(Len(name_block))]
    IN  [w   |-> [w EXCEPT
                     !.header = header,
                     !.inner = @ \o Header_bytes(header) \o data_block
                                 \o info_block \o name_block
                                 \o BlockWriter_finalize(w.hash_block)],
         res |-> "Ok"]

\* TreWriter::finish: the writer with the archive written to its sink
finish(w) ==
    LET fin == IF w.writing_to_file THEN finish_file(w) ELSE [w |-> w, res |-> "Ok"]
        w1  == fin.w
        data_block == BlockWriter_finalize(w1.data_block)
        info_block == BlockWriter_finalize(w1.info_block)
        name_block == BlockWriter_finalize(w1.name_block)
        header == [w1.header EXCEPT
                      !.record_start      = AsU32(HEADER_SIZE + Len(data_block)),
                      !.record_compressed = AsU32(Len(info_block)),
                      !.name_uncompressed = AsU32(BlockWriter_total_in(w1.name_block)),
                      !.name_compressed   = AsU32(Len(name_block))]
    IN  IF fin.res # "Ok" THEN fin
        ELSE [w   |-> [w1 EXCEPT
                          !.header = header,
                          !.inner = @ \o Header_bytes(header) \o data_block
                                      \o info_block \o name_block
                                      \o BlockWriter_finalize(w1.hash_block)],
              res |-> "Ok"]

(***************************************************************************)
(* TreBlockReader: the source seeked to `start`, limited to `limit` bytes  *)
(* by io::Take, read raw or through a ZlibDecoder.                         *)
(***************************************************************************)
\* TreBlockReader::new
BlockReader_new(start, limit, compression) ==
    [kind  |-> IF compression = "None" THEN "Raw" ELSE "Compressed",
     start |-> start,
     limit |-> limit]

\* what the reader yields when read to the end of its stream: for Raw the
\* bytes of the source in [start, start + limit), for Compressed those bytes
\* decoded, or an io::Error of kind InvalidData / UnexpectedEof
BlockReader_stream(src, br) ==
    LET taken == Slice(src, br.start, br.limit)
    IN  IF br.kind = "Raw" THEN [ok |-> TRUE, data |-> taken] ELSE ZlibDecode(taken)

(***************************************************************************)
(* TreBlockReader read call by call.  `pos` is the stream position of the  *)
(* source the archive owns; the reader is io::Take over it, its `limit`    *)
(* the bytes Take still lets through.  For kind "Compressed" `buf` is the  *)
(* input the decoder has pulled through Take and `total_out` the number of *)
(* decoded bytes it has handed out.                                        *)
(***************************************************************************)
NoBlockReader == [kind |-> "none", limit |-> 0, buf |-> << >>, total_out |-> 0]

\* TreBlockReader::new leaving the source where the last reader left it
BlockReader_seek_skipped(pos, br) == pos

\* TreBlockReader::new, reader.seek(SeekFrom::Start(start)): the position of
\* the source afterwards, whatever it was
BlockReader_seek(pos, br) == br.start

\* TreBlockReader::new, reader.by_ref().take(limit), wrapped in a
\* ZlibDecoder for Zlib: nothing is read yet
BlockReader_take(br) ==
    [kind |-> br.kind, limit |-> br.limit, buf |-> << >>, total_out |-> 0]

\* Take::read handing out whatever the source has
Take_read_uncapped(src, pos, limit, n) ==
    LET data == Slice(src, pos, n)
    IN  [data |-> data, position |-> pos + Len(data), limit |-> limit]

\* <io::Take as Read>::read into a buffer of n bytes: at most `limit` bytes,
\* and those the source has from `pos` on
Take_read(src, pos, limit, n) ==
    LET data == Slice(src, pos, Min(n, limit))
    IN  [data |-> data, position |-> pos + Len(data), limit |-> limit - Len(data)]

\* <TreBlockReader as Read>::read into a buffer of n bytes.  Raw reads
\* through Take.  The decoder of Compressed fills its input buffer, which is
\* larger than every block here, through Take at the first call, and hands
\* out the next bytes of the decoded stream, or the error of a stream that
\* does not decode.
BlockReader_read(src, pos, b, n) ==
    IF b.kind = "Raw"
    THEN LET t == Take_read(src, pos, b.limit, n)
         IN  [ok |-> TRUE, data |-> t.data, position |-> t.position,
              block |-> [b EXCEPT !.limit = t.limit]]
    ELSE LET t       == Take_read(src, pos, b.limit, b.limit)
             buf     == b.buf \o t.data
             decoded == ZlibDecode(buf)
             data    == IF decoded.ok THEN Slice(decoded.data, b.total_out, n) ELSE << >>
         IN  [ok |-> decoded.ok, data |-> data, position |-> t.position,
              block |-> [b EXCEPT !.limit = t.limit, !.buf = buf,
                                  !.total_out = @ + Len(data)]]

\* <TreBlockReader as Read>::read_to_end: read calls until one yields
\* nothing, which a single read into a buffer as long as the source and the
\* decoded stream amounts to
BlockReader_read_to_end(src, pos, b) == BlockReader_read(src, pos, b, Len(src) + b.limit)

(***************************************************************************)
(* TreArchive: reading an archive.                                         *)
(***************************************************************************)
\* String::from_utf8_lossy.  The names of the model hold ASCII bytes and
\* bytes that begin no UTF-8 sequence; each of the latter becomes U+FFFD.
RECURSIVE FromUtf8Lossy(_)
FromUtf8Lossy(n) ==
    IF n = << >> THEN << >>
    ELSE (IF Head(n) < 128 THEN << Head(n) >> ELSE << 239, 191, 189 >>)
             \o FromUtf8Lossy(Tail(n))

\* TreHeader::read taking any eight bytes for the magic
TreHeader_read_any_magic(src) ==
    IF Len(src) < HEADER_SIZE
    THEN [ok |-> FALSE, err |-> "Io"]
    ELSE IF ~ValidTag(ReadLE32(src, 16)) \/ ~ValidTag(ReadLE32(src, 24))
    THEN [ok |-> FALSE, err |-> "NoVariantMatch"]
    ELSE [ok |-> TRUE,
          header |-> [records            |-> ReadLE32(src, 8),
                      record_start       |-> ReadLE32(src, 12),
                      record_compression |-> TagMethod(ReadLE32(src, 16)),
                      record_compressed  |-> ReadLE32(src, 20),
                      name_compression   |-> TagMethod(ReadLE32(src, 24)),
                      name_compressed    |-> ReadLE32(src, 28),
                      name_uncompressed  |-> ReadLE32(src, 32)]]

\* TreHeader::read: the magic, then seven u32 fields, of which the two
\* compression methods must be valid tags
TreHeader_read(src) ==
    IF Len(src) < Len(MAGIC) \/ SubSeq(src, 1, Len(MAGIC)) # MAGIC
    THEN [ok |-> FALSE, err |-> "BadMagic"]
    ELSE IF Len(src) < HEADER_SIZE
    THEN [ok |-> FALSE, err |-> "Io"]
    ELSE IF ~ValidTag(ReadLE32(src, 16)) \/ ~ValidTag(ReadLE32(src, 24))
    THEN [ok |-> FALSE, err |-> "NoVariantMatch"]
    ELSE [ok |-> TRUE,
          header |-> [records            |-> ReadLE32(src, 8),
                      record_start       |-> ReadLE32(src, 12),
                      record_compression |-> TagMethod(ReadLE32(src, 16)),
                      record_compressed  |-> ReadLE32(src, 20),
                      name_compression   |-> TagMethod(ReadLE32(src, 24)),
                      name_compressed    |-> ReadLE32(src, 28),
                      name_uncompressed  |-> ReadLE32(src, 32)]]

\* TreRecord::read of the 24 bytes at offset `at` of the record stream
TreRecord_read(s, at) ==
    [checksum          |-> SubSeq(s, at + 1, at + 4),
     data_uncompressed |-> ReadLE32(s, at + 4),
     data_offset       |-> ReadLE32(s, at + 8),
     data_compression  |-> TagMethod(ReadLE32(s, at + 12)),
     data_compressed   |-> ReadLE32(s, at + 16),
     name_offset       |-> ReadLE32(s, at + 20)]

\* TreArchive::get_records: header.records records read from the record
\* block.  Nothing is read, and nothing fails, when there are no records.
get_records(src, header) ==
    LET st == BlockReader_stream(src,
                  BlockReader_new(header.record_start, header.record_compressed,
                                  header.record_compression))
        n  == header.records
    IN  IF n = 0 THEN [ok |-> TRUE, records |-> << >>]
        ELSE IF ~st.ok \/ n > Len(st.data) \/ n * RECORD_SIZE > Len(st.data)
        THEN [ok |-> FALSE, records |-> << >>]
        ELSE IF \E i \in 0..(n - 1) :
                    ~ValidTag(ReadLE32(st.data, (i * RECORD_SIZE) + 12))
        THEN [ok |-> FALSE, records |-> << >>]
        ELSE [ok |-> TRUE,
              records |-> [i \in 1..n |-> TreRecord_read(st.data, (i - 1) * RECORD_SIZE)]]

RECURSIVE ReadNames(_, _, _)
\* the loop of get_names: n times, bytes up to the next NUL; an error when
\* the stream ends first
ReadNames(s, n, acc) ==
    IF n = 0 THEN [ok |-> TRUE, names |-> acc]
    ELSE IF \A i \in 1..Len(s) : s[i] # 0 THEN [ok |-> FALSE, names |-> << >>]
    ELSE LET k == CHOOSE i \in 1..Len(s) : s[i] = 0 /\ \A j \in 1..(i - 1) : s[j] # 0
         IN  ReadNames(SubSeq(s, k + 1, Len(s)), n - 1, Append(acc, SubSeq(s, 1, k - 1)))

\* TreArchive::get_names: the name block starts where the record block ends
get_names(src, header) ==
    LET st == BlockReader_stream(src,
                  BlockReader_new(AsU32(header.record_start + header.record_compressed),
                                  header.name_compressed, header.name_compression))
        n  == header.records
    IN  IF n = 0 THEN [ok |-> TRUE, names |-> << >>]
        ELSE IF ~st.ok \/ n > Len(st.data) THEN [ok |-> FALSE, names |-> << >>]
        ELSE ReadNames(st.data, n, << >>)

\* the TreFileData built from a record and a raw name
TreFileData_of(r, n) ==
    [crc32              |-> r.checksum,
     compression_method |-> r.data_compression,
     compressed_size    |-> r.data_compressed,
     uncompressed_size  |-> r.data_uncompressed,
     data_start         |-> r.data_offset,
     file_name          |-> FromUtf8Lossy(n),
     file_name_raw      |-> n,
     header_start       |-> 0]

\* IndexMap::get_index_of: the 0-based position of the key, if present
get_index_of(files, name) ==
    IF \E i \in 1..Len(files) : files[i].key = name
    THEN [some |-> TRUE, index |-> (CHOOSE i \in 1..Len(files) : files[i].key = name) - 1]
    ELSE [some |-> FALSE, index |-> 0]

\* IndexMap::insert: a new key is appended; an existing key keeps its
\* position and gets the new value
IndexMap_insert(files, key, value) ==
    LET at == get_index_of(files, key)
    IN  IF at.some THEN [files EXCEPT ![at.index + 1].value = value]
        ELSE Append(files, [key |-> key, value |-> value])

RECURSIVE InsertAll(_, _, _, _)
InsertAll(files, records, names, i) ==
    IF i > Len(records) \/ i > Len(names) THEN files
    ELSE LET file == TreFileData_of(records[i], names[i])
         IN  InsertAll(IndexMap_insert(files, file.file_name, file), records, names, i + 1)

\* TreArchive::get_metadata
get_metadata(src) ==
    LET h == TreHeader_read(src)
    IN  IF ~h.ok THEN [ok |-> FALSE]
        ELSE LET rs == get_records(src, h.header)
             IN  IF ~rs.ok THEN [ok |-> FALSE]
                 ELSE LET ns == get_names(src, h.header)
                      IN  IF ~ns.ok THEN [ok |-> FALSE]
                          ELSE [ok |-> TRUE,
                                shared |-> [header |-> h.header,
                                            files  |-> InsertAll(<< >>, rs.records,
                                                                 ns.names, 1)]]

RECURSIVE U32_add(_, _, _)
\* a + b of two u32 given as their four bytes, least significant first,
\* with the carry c coming in: the bytes of the sum modulo 2^32 and the
\* carry out of the top byte
U32_add(a, b, c) ==
    IF a = << >> THEN [sum |-> << >>, carry |-> c]
    ELSE LET t    == Head(a) + Head(b) + c
             rest == U32_add(Tail(a), Tail(b), t \div 256)
         IN  [sum |-> << t % 256 >> \o rest.sum, carry |-> rest.carry]

\* get_names, (header.record_start + header.record_compressed) as u64: the
\* two u32 are added as u32 and the sum is widened.  The results are those
\* of the two kinds of build: when the sum passes 2^32 - 1 a build with
\* overflow checks panics and one without wraps.  The fields are their
\* four bytes, the start the eight bytes of the u64, least significant
\* first.
get_names_start(record_start, record_compressed) ==
    LET r == U32_add(record_start, record_compressed, 0)
    IN  IF r.carry = 0
        THEN { [res |-> "Ok", start |-> r.sum \o << 0, 0, 0, 0 >>] }
        ELSE { [res |-> "Panic", start |-> << >>],
               [res |-> "Ok", start |-> r.sum \o << 0, 0, 0, 0 >>] }

\* the error get_metadata returns through `?`: "BadMagic" and
\* "NoVariantMatch" are binrw's, "Io" is the io::Error of a source that ends
\* before the header does, of a block that ends before its last record or
\* name does, or of a compressed block that does not decode
get_metadata_err(src) ==
    LET h == TreHeader_read(src)
    IN  IF ~h.ok THEN h.err
        ELSE LET header  == h.header
                 records == BlockReader_stream(src,
                                BlockReader_new(header.record_start, header.record_compressed,
                                                header.record_compression))
                 whole   == Min(header.records, Len(records.data) \div RECORD_SIZE)
                 rest    == Len(records.data) - (whole * RECORD_SIZE)
             IN  IF get_records(src, header).ok
                 THEN IF get_names(src, header).ok THEN "none" ELSE "Io"
                 ELSE IF ~records.ok THEN "Io"
                 ELSE IF \E i \in 0..(whole - 1) :
                             ~ValidTag(ReadLE32(records.data, (i * RECORD_SIZE) + 12))
                 THEN "NoVariantMatch"
                 ELSE IF rest >= 16
                         /\ ~ValidTag(ReadLE32(records.data, (whole * RECORD_SIZE) + 12))
                 THEN "NoVariantMatch"
                 ELSE "Io"

\* where get_names leaves the source: at the start of the name block when
\* there is no name to read, after the NUL of the last name when the block
\* is read one byte at a time, after what the decoder pulled otherwise
get_names_position(src, header) ==
    LET start == AsU32(header.record_start + header.record_compressed)
        br    == BlockReader_new(start, header.name_compressed, header.name_compression)
        names == get_names(src, header).names
    IN  IF header.records = 0 THEN start
        ELSE IF br.kind = "Raw"
        THEN start + SumSeq([i \in 1..Len(names) |-> Len(names[i]) + 1])
        ELSE start + Len(Slice(src, start, br.limit))

NoArchive == [reader |-> << >>, shared |-> "none"]

\* TreArchive::new: every failure of get_metadata becomes InvalidArchive
TreArchive_new(reader) ==
    LET m == get_metadata(reader)
    IN  IF m.ok THEN [res |-> "Ok", archive |-> [reader |-> reader, shared |-> m.shared]]
        ELSE [res |-> "InvalidArchive", archive |-> NoArchive]

\* TreArchive::len
len(a) == Len(a.shared.files)

\* TreArchive::file_names
file_names(a) == [i \in 1..Len(a.shared.files) |-> a.shared.files[i].key]

\* TreArchive::index_for_name
index_for_name(a, name) == get_index_of(a.shared.files, name)

\* TreArchive::name_for_index
name_for_index(a, index) ==
    IF index < Len(a.shared.files)
    THEN [some |-> TRUE, name |-> a.shared.files[index + 1].key]
    ELSE [some |-> FALSE, name |-> << >>]

NoFile == [data |-> "none", reader |-> "none"]

\* by_index reporting the number of entries in place of the index asked for
by_index_reports_len(a, file_number) ==
    IF file_number >= Len(a.shared.files)
    THEN [res |-> "FileNotFound",
          err |-> [kind |-> "Index", value |-> Len(a.shared.files)],
          file |-> NoFile]
    ELSE LET data == a.shared.files[file_number + 1].value
         IN  [res  |-> "Ok", err |-> "none",
              file |-> [data   |-> data,
                        reader |-> BlockReader_new(data.data_start, data.compressed_size,
                                                   data.compression_method)]]

\* TreArchive::by_index
by_index(a, file_number) ==
    IF file_number >= Len(a.shared.files)
    THEN [res |-> "FileNotFound", err |-> [kind |-> "Index", value |-> file_number],
          file |-> NoFile]
    ELSE LET data == a.shared.files[file_number + 1].value
         IN  [res  |-> "Ok", err |-> "none",
              file |-> [data   |-> data,
                        reader |-> BlockReader_new(data.data_start, data.compressed_size,
                                                   data.compression_method)]]

\* by_name handing by_index the position after the one found
by_name_next_index(a, name) ==
    LET at == get_index_of(a.shared.files, name)
    IN  IF ~at.some
        THEN [res |-> "FileNotFound", err |-> [kind |-> "Name", value |-> name],
              file |-> NoFile]
        ELSE by_index(a, at.index + 1)

\* TreArchive::by_name
by_name(a, name) ==
    LET at == get_index_of(a.shared.files, name)
    IN  IF ~at.some
        THEN [res |-> "FileNotFound", err |-> [kind |-> "Name", value |-> name],
              file |-> NoFile]
        ELSE by_index(a, at.index)

\* <TreFile as Read>::read_to_end on a reader just returned by by_index or
\* by_name
read_to_end(a, file) == BlockReader_stream(a.reader, file.reader)

(***************************************************************************)
(* swg_stf: the string table reader.  A HashMap is a function; a String is *)
(* its UTF-8 bytes; a U16String is its sequence of 16-bit code units.      *)
(***************************************************************************)
\* the magic of a string table, 0x0000ABCD
STF_MAGIC == 43981

\* a u16 in little-endian byte order
LE16(v) == << v % 256, v \div 256 >>

\* read_u16::<LittleEndian> at 0-based offset `at` of s (2 bytes must exist)
ReadLE16(s, at) == s[at + 1] + (256 * s[at + 2])

\* String::from_utf8 succeeds.  The key bytes of the model are ASCII, or
\* bytes of 128 and more standing alone, which are no UTF-8.
Utf8Valid(n) == \A i \in 1..Len(n) : n[i] < 128

\* HashMap::insert: the value of an existing key is replaced
HashMap_insert(m, k, v) == [x \in (DOMAIN m) \cup {k} |-> IF x = k THEN v ELSE m[x]]

\* the empty HashMap
HashMap_new == [x \in {} |-> << >>]

RECURSIVE ReadRunes16(_, _, _)
\* the inner loop of a value record: n code units from offset `at`
ReadRunes16(s, at, n) ==
    IF n = 0 THEN << >>
    ELSE << ReadLE16(s, at) >> \o ReadRunes16(s, at + 2, n - 1)

RECURSIVE ReadValues(_, _, _, _)
\* the first loop of StringTableReader::new: n value records from offset
\* `at`, each an id, an unknown word, a count of code units and the code
\* units; a read beyond the end of s is an error
ReadValues(s, at, n, values) ==
    IF n = 0 THEN [ok |-> TRUE, at |-> at, map |-> values]
    ELSE IF Len(s) - at < 12 THEN [ok |-> FALSE, at |-> at, map |-> values]
    ELSE LET id    == ReadLE32(s, at)
             runes == ReadLE32(s, at + 8)
         IN  IF runes > (Len(s) - (at + 12)) \div 2
             THEN [ok |-> FALSE, at |-> at, map |-> values]
             ELSE ReadValues(s, at + 12 + (2 * runes), n - 1,
                             HashMap_insert(values, id, ReadRunes16(s, at + 12, runes)))

RECURSIVE ReadKeys(_, _, _, _)
\* the second loop of StringTableReader::new: n key records from offset
\* `at`, each an id, a count of bytes and the bytes, which must be UTF-8
ReadKeys(s, at, n, names) ==
    IF n = 0 THEN [ok |-> TRUE, err |-> "none", map |-> names]
    ELSE IF Len(s) - at < 8 THEN [ok |-> FALSE, err |-> "IOError", map |-> names]
    ELSE LET id    == ReadLE32(s, at)
             runes == ReadLE32(s, at + 4)
         IN  IF runes > Len(s) - (at + 8)
             THEN [ok |-> FALSE, err |-> "IOError", map |-> names]
             ELSE IF ~Utf8Valid(SubSeq(s, at + 9, at + 8 + runes))
             THEN [ok |-> FALSE, err |-> "UTF8Error", map |-> names]
             ELSE ReadKeys(s, at + 8 + runes, n - 1,
                           HashMap_insert(names, id, SubSeq(s, at + 9, at + 8 + runes)))

RECURSIVE Join(_, _, _, _)
\* names.iter().filter_map(..).collect(): the key ids are met in the order
\* `order`, an id with both a key and a value puts its pair in the table,
\* and a key string put twice keeps the value put last
Join(names, values, order, entries) ==
    IF order = << >> THEN entries
    ELSE LET id == Head(order)
         IN  Join(names, values, Tail(order),
                  IF id \in DOMAIN names /\ id \in DOMAIN values
                  THEN HashMap_insert(entries, names[id], values[id])
                  ELSE entries)

NoReader == [res |-> "none", entries |-> HashMap_new]

\* StringTableReader::new.  `order` is the order in which the iteration of
\* the HashMap `names` meets the ids, which the HashMap leaves open.  The
\* capacity the maps and buffers are created with is a hint left out.
StringTableReader_new(src, order) ==
    IF Len(src) < 4 THEN [res |-> "IOError", entries |-> HashMap_new]
    ELSE IF ReadLE32(src, 0) # STF_MAGIC THEN [res |-> "InvalidFile", entries |-> HashMap_new]
    ELSE IF Len(src) < 13 THEN [res |-> "IOError", entries |-> HashMap_new]
    ELSE LET count  == ReadLE32(src, 9)
             values == ReadValues(src, 13, count, HashMap_new)
             names  == ReadKeys(src, values.at, count, HashMap_new)
         IN  IF ~values.ok THEN [res |-> "IOError", entries |-> HashMap_new]
             ELSE IF ~names.ok THEN [res |-> names.err, entries |-> HashMap_new]
             ELSE [res |-> "Ok",
                   entries |-> Join(names.map, values.map, order, HashMap_new)]

\* StringTableReader::len
StringTableReader_len(r) == Cardinality(DOMAIN r.entries)

\* StringTableReader::get_entries
get_entries(r) == r.entries

\* by_id answering with the code units up to the first NUL
by_id_c_string(r, id) ==
    IF id \in DOMAIN r.entries
    THEN [some |-> TRUE,
          value |-> LET v == r.entries[id]
                    IN  IF \E i \in 1..Len(v) : v[i] = 0
                        THEN SubSeq(v, 1, (CHOOSE i \in 1..Len(v) :
                                 v[i] = 0 /\ \A j \in 1..(i - 1) : v[j] # 0) - 1)
                        ELSE v]
    ELSE [some |-> FALSE, value |-> << >>]

\* StringTableReader::by_id
by_id(r, id) ==
    IF id \in DOMAIN r.entries
    THEN [some |-> TRUE, value |-> r.entries[id]]
    ELSE [some |-> FALSE, value |-> << >>]

(***************************************************************************)
(* swg tre diff: the changes and their order.  A label or a name is its    *)
(* bytes; the key of a change is one of a few literals.                    *)
(***************************************************************************)
\* Option::None of a Change
NoChange == [tag |-> "None"]

\* Change::Added(key, value)
Added(key, v) == [tag |-> "Added", key |-> key, value |-> v]

\* Change::Removed(key, value)
Removed(key, v) == [tag |-> "Removed", key |-> key, value |-> v]

\* Change::Comparison(key, old, new)
Comparison(key, old, new) == [tag |-> "Comparison", key |-> key, old |-> old, new |-> new]

\* Change::Context(lines)
Context(lines) == [tag |-> "Context", lines |-> lines]

\* Change::Modified(key, value, children, related)
Modified(key, v, children, related) ==
    [tag |-> "Modified", key |-> key, value |-> v, children |-> children, related |-> related]

\* the keys the changes are made with, in the order of str
ChangeKeys ==
    << "entries", "files", "name block size", "record block size",
       "record compression", "size", "tre" >>

\* <str as Ord>::cmp of two keys
Key_cmp(a, b) ==
    LET at(k) == CHOOSE i \in 1..Len(ChangeKeys) : ChangeKeys[i] = k
    IN  IF at(a) < at(b) THEN "Less" ELSE IF at(a) > at(b) THEN "Greater" ELSE "Equal"

RECURSIVE String_cmp(_, _)
\* <str as Ord>::cmp: byte by byte, a proper prefix first
String_cmp(a, b) ==
    IF a = << >> THEN (IF b = << >> THEN "Equal" ELSE "Less")
    ELSE IF b = << >> THEN "Greater"
    ELSE IF Head(a) < Head(b) THEN "Less"
    ELSE IF Head(a) > Head(b) THEN "Greater"
    ELSE String_cmp(Tail(a), Tail(b))

\* Ordering::then
Then(ord, next) == IF ord = "Equal" THEN next ELSE ord

RECURSIVE Change_partial_cmp(_, _)
RECURSIVE Vec_partial_cmp(_, _)
\* <Vec<Change> as PartialOrd>::partial_cmp: the first pair of elements
\* that is not Equal decides; a proper prefix is Less
Vec_partial_cmp(a, b) ==
    IF a = << >> THEN (IF b = << >> THEN "Equal" ELSE "Less")
    ELSE IF b = << >> THEN "Greater"
    ELSE LET c == Change_partial_cmp(Head(a), Head(b))
         IN  IF c = "Equal" THEN Vec_partial_cmp(Tail(a), Tail(b)) ELSE c

\* <Change as PartialOrd>::partial_cmp: changes of two variants, and
\* Contexts, are not comparable ("None")
Change_partial_cmp(a, b) ==
    IF a.tag # b.tag \/ a.tag = "Context" THEN "None"
    ELSE IF a.tag = "Comparison" THEN Key_cmp(a.key, b.key)
    ELSE IF a.tag \in {"Added", "Removed"}
    THEN Then(Key_cmp(a.key, b.key), String_cmp(a.value, b.value))
    ELSE LET ord == Then(Key_cmp(a.key, b.key), String_cmp(a.value, b.value))
             sub == Vec_partial_cmp(a.children, b.children)
         IN  IF sub = "None" THEN "None" ELSE Then(ord, sub)

\* <Change as Ord>::cmp
Change_cmp(a, b) ==
    LET c == Change_partial_cmp(a, b) IN IF c = "None" THEN "Equal" ELSE c

RECURSIVE Sort_insert(_, _)
\* one step of the insertion sort: x moves left past every element greater
\* than it
Sort_insert(v, x) ==
    IF v = << >> THEN << x >>
    ELSE IF Change_cmp(x, v[Len(v)]) = "Less"
    THEN Append(Sort_insert(SubSeq(v, 1, Len(v) - 1), x), v[Len(v)])
    ELSE Append(v, x)

RECURSIVE Vec_sort(_)
\* Vec::sort with Change::cmp.  The vectors of the model are short, and a
\* short slice is sorted by insertion.
Vec_sort(v) ==
    IF v = << >> THEN << >>
    ELSE Sort_insert(Vec_sort(SubSeq(v, 1, Len(v) - 1)), v[Len(v)])

\* Change::with_children appending without sorting
with_children_appended(c, children) == [c EXCEPT !.children = @ \o children]

\* Change::with_children on a Modified
with_children(c, children) == [c EXCEPT !.children = Vec_sort(@ \o children)]

\* Change::with_related on a Modified
with_related(c, related) == [c EXCEPT !.related = Vec_sort(@ \o related)]

\* Option::get_or_insert(Change::Modified(key, value, [], []))
get_or_insert(result, key, v) ==
    IF result.tag = "None" THEN Modified(key, v, << >>, << >>) ELSE result

RECURSIVE Sorted(_)
\* the names of a set as a vector after Vec::sort
Sorted(names) ==
    IF names = {} THEN << >>
    ELSE LET least == CHOOSE n \in names :
                          \A o \in names : String_cmp(n, o) \in {"Less", "Equal"}
         IN  << least >> \o Sorted(names \ {least})

RECURSIVE Digits(_)
\* usize::to_string and u32::to_string: the decimal digits
Digits(n) == IF n < 10 THEN << 48 + n >> ELSE Append(Digits(n \div 10), 48 + (n % 10))

(***************************************************************************)
(* swg tre diff: DiffArgs::handle_stf_file, handle_file and handle_tre.    *)
(***************************************************************************)
\* TreArchive::get_record_compression
get_record_compression(a) == a.shared.header.record_compression

\* TreArchive::get_record_block_size
get_record_block_size(a) == a.shared.header.record_compressed

\* TreArchive::get_name_block_size
get_name_block_size(a) == a.shared.header.name_compressed

\* CompressionMethod::to_string: the name of the variant
Method_to_string(m) == IF m = "None" THEN <<78, 111, 110, 101>> ELSE <<90, 108, 105, 98>>

\* str::ends_with
ends_with(name, suffix) ==
    /\ Len(name) >= Len(suffix)
    /\ SubSeq(name, Len(name) - Len(suffix) + 1, Len(name)) = suffix

\* ".stf"
STF_SUFFIX == <<46, 115, 116, 102>>

\* StringTableReader::decode: the string table of the payload, or the
\* error of reading it.  The payloads of the model hold the ids 1 and 2
\* and no key string twice, so every order of the ids gives the same table.
StringTableReader_decode(src) ==
    LET r == StringTableReader_new(src, << 1, 2 >>)
    IN  [ok |-> r.res = "Ok", err |-> r.res, table |-> r.entries]

RECURSIVE Utf16_decode(_)
\* String::from_utf16: the code points of the units, a surrogate pair
\* giving one; an unpaired surrogate is an error
Utf16_decode(v) ==
    IF v = << >> THEN [ok |-> TRUE, text |-> << >>]
    ELSE IF Head(v) < 55296 \/ Head(v) > 57343
    THEN LET rest == Utf16_decode(Tail(v))
         IN  [ok |-> rest.ok, text |-> << Head(v) >> \o rest.text]
    ELSE IF Head(v) <= 56319 /\ Len(v) >= 2 /\ v[2] >= 56320 /\ v[2] <= 57343
    THEN LET rest == Utf16_decode(Tail(Tail(v)))
         IN  [ok |-> rest.ok,
              text |-> << 65536 + ((Head(v) - 55296) * 1024) + (v[2] - 56320) >>
                           \o rest.text]
    ELSE [ok |-> FALSE, text |-> << >>]

\* v.to_string().ok() ... unwrap_or("")
Value_text(v) == IF Utf16_decode(v).ok THEN Utf16_decode(v).text ELSE << >>

\* DiffArgs::handle_stf_file: the keys only right has, the keys only left
\* has, and in sorted order the shared keys whose texts differ (a ratio of
\* TextDiff::from_lines below 1.0).  The keys of the first two groups come
\* in the order the HashMaps yield them: lk is that of left.keys() and rk
\* that of right.keys().  What the similar crate renders of the two texts
\* in Full mode is kept as the two texts.
handle_stf_file(l, r, m, lk, rk) ==
    LET only_right == SelectSeq(rk, LAMBDA k : k \notin DOMAIN l)
        only_left  == SelectSeq(lk, LAMBDA k : k \notin DOMAIN r)
        shared     == Sorted((DOMAIN l) \cap (DOMAIN r))
        Differs(k) == Value_text(l[k]) # Value_text(r[k])
        changed    == SelectSeq(shared, Differs)
    IN  [i \in 1..Len(only_right) |-> Added("entries", only_right[i])]
        \o [i \in 1..Len(only_left) |-> Removed("entries", only_left[i])]
        \o [i \in 1..Len(changed) |->
               Modified("entries", changed[i], << >>,
                   << Context(IF m = "Full"
                              THEN << Value_text(l[changed[i]]), Value_text(r[changed[i]]) >>
                              ELSE << >>) >>)]

\* DiffArgs::handle_file.  with_children gives the same children whatever
\* the order the HashMaps yield the keys of the two tables in
\* (StableOrdering); they are taken in ascending order here.
handle_file(name, l, r, m) ==
    LET sized == IF Len(l) # Len(r)
                 THEN with_related(get_or_insert(NoChange, "files", name),
                          << Comparison("size", Digits(Len(l)), Digits(Len(r))) >>)
                 ELSE NoChange
    IN  IF ~ends_with(name, STF_SUFFIX) THEN [res |-> "Ok", change |-> sized]
        ELSE LET stf_left  == StringTableReader_decode(l)
                 stf_right == StringTableReader_decode(r)
             IN  IF ~stf_left.ok THEN [res |-> "Err", change |-> NoChange]
                 ELSE IF ~stf_right.ok THEN [res |-> "Err", change |-> NoChange]
                 ELSE LET changes == handle_stf_file(stf_left.table, stf_right.table, m,
                                                     Sorted(DOMAIN stf_left.table),
                                                     Sorted(DOMAIN stf_right.table))
                      IN  [res |-> "Ok",
                           change |-> IF changes # << >>
                                      THEN with_children(get_or_insert(sized, "files", name),
                                                         changes)
                                      ELSE sized]

\* all_names: the union of the names of the two archives, sorted
all_names(l, r) ==
    Sorted({ file_names(l)[i] : i \in 1..Len(file_names(l)) }
               \cup { file_names(r)[i] : i \in 1..Len(file_names(r)) })

\* files_added taking the names of the left archive for those of the right
files_added_swapped(names, left_names, right_names) ==
    LET Is(f) == f \in left_names /\ f \notin right_names
        found == SelectSeq(names, Is)
    IN  [i \in 1..Len(found) |-> Added("files", found[i])]

\* files_added: of all_names, those only the right archive has
files_added(names, left_names, right_names) ==
    LET Is(f) == f \in right_names /\ f \notin left_names
        found == SelectSeq(names, Is)
    IN  [i \in 1..Len(found) |-> Added("files", found[i])]

\* files_removed: of all_names, those only the left archive has
files_removed(names, left_names, right_names) ==
    LET Is(f) == f \notin right_names /\ f \in left_names
        found == SelectSeq(names, Is)
    IN  [i \in 1..Len(found) |-> Removed("files", found[i])]

\* files_shared: of all_names, those both archives have
files_shared(names, left_names, right_names) ==
    LET Is(f) == f \in right_names /\ f \in left_names
    IN  SelectSeq(names, Is)

RECURSIVE CompareShared(_, _, _, _, _, _, _)
\* the loop of handle_tre over files_shared: both payloads are read whole
\* and handed to handle_file, whose change becomes a child of the result;
\* the first error ends the comparison.  `compared` keeps the names handed
\* to handle_file, in the order of the calls.
CompareShared(name, l, r, m, files, result, compared) ==
    IF files = << >> THEN [res |-> "Ok", change |-> result, compared |-> compared]
    ELSE LET file_left  == by_name(l, Head(files))
             file_right == by_name(r, Head(files))
         IN  IF file_left.res # "Ok" \/ file_right.res # "Ok"
             THEN [res |-> "Err", change |-> NoChange, compared |-> compared]
             ELSE LET data_left  == read_to_end(l, file_left.file)
                      data_right == read_to_end(r, file_right.file)
                  IN  IF ~data_left.ok \/ ~data_right.ok
                      THEN [res |-> "Err", change |-> NoChange, compared |-> compared]
                      ELSE LET file_modified ==
                                   handle_file(Head(files), data_left.data, data_right.data, m)
                               called == Append(compared, Head(files))
                           IN  IF file_modified.res # "Ok"
                               THEN [res |-> "Err", change |-> NoChange, compared |-> called]
                               ELSE CompareShared(name, l, r, m, Tail(files),
                                        IF file_modified.change.tag # "None"
                                        THEN with_children(get_or_insert(result, "tre", name),
                                                           << file_modified.change >>)
                                        ELSE result,
                                        called)

\* DiffArgs::handle_tre
handle_tre(name, l, r, m) ==
    LET counted == IF len(l) # len(r)
                   THEN with_related(get_or_insert(NoChange, "tre", name),
                            << Comparison("entries", Digits(len(l)), Digits(len(r))) >>)
                   ELSE NoChange
        methods == IF m = "Full" /\ get_record_compression(l) # get_record_compression(r)
                   THEN with_related(get_or_insert(counted, "tre", name),
                            << Comparison("record compression",
                                   Method_to_string(get_record_compression(l)),
                                   Method_to_string(get_record_compression(r))) >>)
                   ELSE counted
        records == IF m = "Full" /\ get_record_block_size(l) # get_record_block_size(r)
                   THEN with_related(get_or_insert(methods, "tre", name),
                            << Comparison("record block size",
                                   Digits(get_record_block_size(l)),
                                   Digits(get_record_block_size(r))) >>)
                   ELSE methods
        sizes   == IF m = "Full" /\ get_name_block_size(l) # get_name_block_size(r)
                   THEN with_related(get_or_insert(records, "tre", name),
                            << Comparison("name block size",
                                   Digits(get_name_block_size(l)),
                                   Digits(get_name_block_size(r))) >>)
                   ELSE records
        left_names  == { file_names(l)[i] : i \in 1..Len(file_names(l)) }
        right_names == { file_names(r)[i] : i \in 1..Len(file_names(r)) }
        names   == all_names(l, r)
        added   == files_added(names, left_names, right_names)
        removed == files_removed(names, left_names, right_names)
        with_added   == IF added # << >>
                        THEN with_children(get_or_insert(sizes, "tre", name), added)
                        ELSE sizes
        with_removed == IF removed # << >>
                        THEN with_children(get_or_insert(with_added, "tre", name), removed)
                        ELSE with_added
    IN  CompareShared(name, l, r, m, files_shared(names, left_names, right_names),
                      with_removed, << >>)

(***************************************************************************)
(* The state machine: one TreWriter is driven by a caller, finished, and   *)
(* the bytes of its sink are opened with TreArchive::new and read back.    *)
(***************************************************************************)
VARIABLES
    writer,    \* the TreWriter
    twin,      \* a second TreWriter given the same start_file, write and
               \* finish calls but never an explicit finish_file
    entries,   \* the calls accepted so far: per start_file its name and
               \* method and the bytes its write calls accepted
    pc,        \* "writing", "finished", "source", "tampered", "opened",
               \* "looked", "read", "invalid" or "panicked"
    lastOp,    \* the last call made and its argument
    lastRes,   \* what that call returned, and the byte count (or the
               \* position) it returned
    source,    \* the bytes handed to TreArchive::new
    archive,   \* the TreArchive, once opened
    file,      \* the result of the last by_index / by_name
    out,       \* the result of reading `file` to its end
    table,     \* the value records and key records a string table source
               \* was made of
    stf,       \* the StringTableReader, once decoded
    got,       \* the result of the last by_id
    mode,      \* DiffArgs.mode
    left,      \* the left operand of a comparison: a TreArchive, or the
               \* StringTable decoded from an entry
    right,     \* the right operand of a comparison
    difference, \* what handle_tre, or handle_file, returned
    position,  \* the stream position of the source the archive owns
    block,     \* the TreBlockReader of `file`
    dropped    \* how much of its stream each earlier reader of the archive
               \* had yielded when the next lookup replaced it

treVars == << writer, twin, entries, archive, file, out >>
stfVars == << table, stf, got >>
diffVars == << mode, left, right, difference >>
blockVars == << position, block, dropped >>
vars == << writer, twin, entries, pc, lastOp, lastRes, source, archive, file, out,
           table, stf, got, mode, left, right, difference, position, block, dropped >>

\* a writer that finish(self) has consumed
Consumed == "consumed"

NoLookup == [res |-> "None", err |-> "none", file |-> NoFile]
NoRead == [ok |-> FALSE, data |-> << >>]
NoTable == [values |-> << >>, keys |-> << >>]
NoValue == [some |-> FALSE, value |-> << >>]
NoDifference == [res |-> "none", change |-> NoChange, compared |-> << >>]

\* no string table is decoded
StfIdle == table = NoTable /\ stf = NoReader /\ got = NoValue

\* no entry reader is out
BlockIdle == position = 0 /\ block = NoBlockReader /\ dropped = << >>

\* no archives are compared
DiffIdle ==
    /\ mode = "Symantic"
    /\ left = NoArchive
    /\ right = NoArchive
    /\ difference = NoDifference

Options == [record_compression : Methods, name_compression : Methods]

RECURSIVE SumWrites(_)
SumWrites(es) == IF es = << >> THEN 0 ELSE Head(es).writes + SumWrites(Tail(es))
\* the number of accepted write calls so far
Writes == SumWrites(entries)

Init ==
    /\ \E options \in Options :
          /\ writer = TreWriter_new(<< >>, options)
          /\ twin = TreWriter_new(<< >>, options)
    /\ entries = << >>
    /\ pc = "writing"
    /\ lastOp = << "new", << >> >>
    /\ lastRes = << "Ok", 0 >>
    /\ source = << >>
    /\ archive = NoArchive
    /\ file = NoLookup
    /\ out = NoRead
    /\ BlockIdle
    /\ StfIdle
    /\ DiffIdle

\* tre.start_file(name, compression)
StartFile(name, compression) ==
    /\ pc = "writing"
    /\ writer.header.records < MaxEntries
    /\ LET r == start_file(writer, name, compression)
       IN  /\ writer' = r.w
           /\ twin' = IF twin = writer THEN r.w ELSE start_file(twin, name, compression).w
           /\ lastRes' = << r.res, 0 >>
           /\ pc' = IF r.res = "Panic" THEN "panicked" ELSE pc
    /\ entries' = Append(entries, [name |-> name, compression |-> compression,
                                   data |-> << >>, writes |-> 0])
    /\ lastOp' = << "start_file", name >>
    /\ UNCHANGED << source, archive, file, out >>
    /\ UNCHANGED << stfVars, diffVars, blockVars >>

\* tre.write(buf)
Write(buf) ==
    /\ pc = "writing"
    /\ Writes < MaxWrites
    /\ LET r == write(writer, buf)
       IN  /\ writer' = r.w
           /\ twin' = IF r.res # "Ok" THEN twin
                      ELSE IF twin = writer THEN r.w ELSE write(twin, buf).w
           /\ lastRes' = << r.res, r.n >>
           /\ pc' = IF r.res = "Panic" THEN "panicked" ELSE pc
           /\ entries' = IF r.res = "Ok"
                         THEN [entries EXCEPT
                                  ![Len(entries)].data = @ \o SubSeq(buf, 1, r.n),
                                  ![Len(entries)].writes = @ + 1]
                         ELSE entries
    /\ lastOp' = << "write", buf >>
    /\ UNCHANGED << source, archive, file, out >>
    /\ UNCHANGED << stfVars, diffVars, blockVars >>

\* tre.finish_file(), called as the crate calls it: with an entry open
FinishFile ==
    /\ pc = "writing"
    /\ writer.writing_to_file
    /\ LET r == finish_file(writer)
       IN  /\ writer' = r.w
           /\ lastRes' = << r.res, 0 >>
           /\ pc' = IF r.res = "Panic" THEN "panicked" ELSE pc
    /\ lastOp' = << "finish_file", << >> >>
    /\ UNCHANGED << twin, entries, source, archive, file, out >>
    /\ UNCHANGED << stfVars, diffVars, blockVars >>

\* tre.finish(): the sink is returned and becomes the source of a reader.
\* lastOp keeps whether an entry was open when finish was called.
Finish ==
    /\ pc = "writing"
    /\ LET r == finish(writer)
       IN  /\ writer' = r.w
           /\ twin' = IF twin = writer THEN r.w ELSE finish(twin).w
           /\ lastRes' = << r.res, 0 >>
           /\ pc' = IF r.res = "Panic" THEN "panicked" ELSE "finished"
           /\ source' = r.w.inner
    /\ lastOp' = << "finish", writer.writing_to_file >>
    /\ UNCHANGED << entries, archive, file, out >>
    /\ UNCHANGED << stfVars, diffVars, blockVars >>

\* TreArchive::new(source).  finish(self) consumed the writer: from here on
\* only its sink is left.
Open ==
    /\ pc \in {"finished", "source", "tampered"}
    /\ LET r == TreArchive_new(source)
       IN  /\ archive' = r.archive
           /\ lastRes' = << r.res, 0 >>
           /\ pc' = IF r.res = "Ok" THEN "opened" ELSE "invalid"
    /\ lastOp' = << "new_archive", << >> >>
    /\ writer' = Consumed
    /\ twin' = Consumed
    /\ position' = IF TreArchive_new(source).res = "Ok"
                    THEN get_names_position(source, TreHeader_read(source).header)
                    ELSE position
    /\ UNCHANGED << entries, source, file, out, block, dropped >>
    /\ UNCHANGED << stfVars, diffVars >>

\* a lookup is made on an archive just opened, after a lookup that found
\* nothing, or after read calls on the reader of an earlier lookup, which it
\* replaces
CanLookUp ==
    \/ pc = "opened"
    \/ pc = "looked" /\ file.res = "FileNotFound"
    \/ pc = "block" /\ Len(dropped) < MaxOpens - 1

\* how much of its stream the reader of `file` has yielded
Consumption ==
    IF out.data = << >> THEN "none"
    ELSE IF Len(out.data) = Len(read_to_end(archive, file.file).data) THEN "all"
    ELSE "part"

\* the reader of the lookup result f: TreBlockReader::new has sought the
\* source and wrapped it; the reader it replaces is dropped, and the
\* caller's buffer is empty
NewReader(f) ==
    /\ position' = IF f.res = "Ok" THEN BlockReader_seek(position, f.file.reader)
                    ELSE position
    /\ block' = IF f.res = "Ok" THEN BlockReader_take(f.file.reader) ELSE NoBlockReader
    /\ dropped' = IF pc = "block" THEN Append(dropped, Consumption) ELSE dropped
    /\ out' = NoRead

\* archive.by_index(i)
ByIndex(i) ==
    /\ CanLookUp
    /\ file' = by_index(archive, i)
    /\ NewReader(file')
    /\ lastRes' = << file'.res, 0 >>
    /\ lastOp' = << "by_index", i >>
    /\ pc' = "looked"
    /\ UNCHANGED << writer, twin, entries, source, archive >>
    /\ UNCHANGED << stfVars, diffVars >>

\* archive.by_name(name)
ByName(name) ==
    /\ CanLookUp
    /\ file' = by_name(archive, name)
    /\ NewReader(file')
    /\ lastRes' = << file'.res, 0 >>
    /\ lastOp' = << "by_name", name >>
    /\ pc' = "looked"
    /\ UNCHANGED << writer, twin, entries, source, archive >>
    /\ UNCHANGED << stfVars, diffVars >>

\* file.read_to_end(&mut buffer) on the entry reader just obtained.  A run
\* looks entries up until one is found, and reads the entry found.
\* lastOp keeps the lookup that returned the reader.
ReadToEnd ==
    /\ pc = "looked"
    /\ file.res = "Ok"
    /\ out' = read_to_end(archive, file.file)
    /\ lastRes' = << IF out'.ok THEN "Ok" ELSE "Io", Len(out'.data) >>
    /\ pc' = "read"
    /\ LET r == BlockReader_read_to_end(source, position, block)
       IN  position' = r.position /\ block' = r.block
    /\ UNCHANGED << writer, twin, entries, source, archive, file, lastOp, dropped >>
    /\ UNCHANGED << stfVars, diffVars >>

\* the names looked up: those written, one never written, and "b", the part
\* of "b\0c" before its NUL
LookupNames == NameSet \cup {MissingName, <<98>>}

Next ==
    \/ \E name \in NameSet, compression \in Methods : StartFile(name, compression)
    \/ \E buf \in {Chunk(Writes + 1)} : Write(buf)
    \/ FinishFile
    \/ Finish
    \/ Open
    \/ \E i \in 0..MaxEntries : ByIndex(i)
    \/ \E name \in LookupNames : ByName(name)
    \/ ReadToEnd

Spec == Init /\ [][Next]_vars

(***************************************************************************)
(* Reading sources that no writer vouches for: an archive some writer      *)
(* produced, one of its bytes possibly overwritten, is opened with         *)
(* TreArchive::new and read.                                               *)
(***************************************************************************)
\* the entries of the archives that are overwritten
SeedEntries ==
    { << >>,
      << [name |-> <<97>>, compression |-> "None", data |-> <<1>>, writes |-> 1] >>,
      << [name |-> <<97, 98>>, compression |-> "Zlib", data |-> <<7, 8>>, writes |-> 1],
         [name |-> <<97>>, compression |-> "None", data |-> << >>, writes |-> 0] >> }

RECURSIVE Written(_, _)
\* the writer after start_file and write for each entry of es
Written(w, es) ==
    IF es = << >> THEN w
    ELSE LET started == start_file(w, Head(es).name, Head(es).compression).w
         IN  Written(IF Head(es).writes = 0 THEN started
                     ELSE write(started, Head(es).data).w,
                     Tail(es))

\* the archive with the entries es
SeedSource(options, es) == finish(Written(TreWriter_new(<< >>, options), es)).w.inner

\* the offsets overwritten, any of the source, and the bytes put there
TamperOffsets == 0..(Len(source) - 1)
TamperBytes == {0, 2, 64}

\* the values handed to CompressionMethod::from
TagValues == {0, 1, 2, 3}

InitRead ==
    /\ \E options \in Options, es \in SeedEntries :
          /\ source = SeedSource(options, es)
          /\ entries = es
    /\ writer = Consumed
    /\ twin = Consumed
    /\ pc = "source"
    /\ lastOp = << "new", << >> >>
    /\ lastRes = << "Ok", 0 >>
    /\ archive = NoArchive
    /\ file = NoLookup
    /\ out = NoRead
    /\ BlockIdle
    /\ StfIdle
    /\ DiffIdle

\* one byte of the source is overwritten before it is opened
Tamper(at, byte) ==
    /\ pc = "source"
    /\ lastRes' = << "Ok", 0 >>
    /\ at < Len(source)
    /\ source[at + 1] # byte
    /\ source' = [source EXCEPT ![at + 1] = byte]
    /\ pc' = "tampered"
    /\ lastOp' = << "tamper", at >>
    /\ UNCHANGED << writer, twin, entries, archive, file, out >>
    /\ UNCHANGED << stfVars, diffVars, blockVars >>

\* CompressionMethod::from(value), called on its own before the source is
\* opened
FromU32(value) ==
    /\ pc = "source"
    /\ lastOp' = << "from_u32", value >>
    /\ lastRes' = << From_u32(value).res, 0 >>
    /\ pc' = IF From_u32(value).res = "Panic" THEN "panicked" ELSE pc
    /\ UNCHANGED << writer, twin, entries, source, archive, file, out >>
    /\ UNCHANGED << stfVars, diffVars, blockVars >>

NextRead ==
    \/ \E at \in TamperOffsets, byte \in TamperBytes : Tamper(at, byte)
    \/ \E value \in TagValues : FromU32(value)
    \/ Open
    \/ \E i \in 0..MaxEntries : ByIndex(i)
    \/ \E name \in LookupNames : ByName(name)
    \/ ReadToEnd

SpecRead == InitRead /\ [][NextRead]_vars

(***************************************************************************)
(* Entry readers read call by call: an archive of SpecRead is opened, and  *)
(* its entries are looked up one after the other, each reader read in      *)
(* pieces, to its end or not at all before the next lookup replaces it.    *)
(***************************************************************************)
\* the buffer lengths of the read calls
ReadSizes == {0, 1, 2}

\* file.read(&mut buf) with a buffer of n bytes; the caller keeps what the
\* calls on this reader yielded in `out`
Read(n) ==
    /\ pc \in {"looked", "block"}
    /\ file.res = "Ok"
    /\ LET r == BlockReader_read(source, position, block, n)
       IN  /\ out' = [ok |-> r.ok, data |-> out.data \o r.data]
           /\ position' = r.position
           /\ block' = r.block
           /\ lastRes' = << IF r.ok THEN "Ok" ELSE "Io", Len(r.data) >>
    /\ lastOp' = << "read", n >>
    /\ pc' = "block"
    /\ UNCHANGED << writer, twin, entries, source, archive, file, dropped >>
    /\ UNCHANGED << stfVars, diffVars >>

\* file.read_to_end(&mut buffer) on a reader that read calls may have
\* consumed part of
ReadRest ==
    /\ pc \in {"looked", "block"}
    /\ file.res = "Ok"
    /\ LET r == BlockReader_read_to_end(source, position, block)
       IN  /\ out' = [ok |-> r.ok, data |-> out.data \o r.data]
           /\ position' = r.position
           /\ block' = r.block
           /\ lastRes' = << IF r.ok THEN "Ok" ELSE "Io", Len(r.data) >>
    /\ lastOp' = << "read_to_end", << >> >>
    /\ pc' = "block"
    /\ UNCHANGED << writer, twin, entries, source, archive, file, dropped >>
    /\ UNCHANGED << stfVars, diffVars >>

NextBlock ==
    \/ \E at \in TamperOffsets, byte \in TamperBytes : Tamper(at, byte)
    \/ Open
    \/ \E i \in 0..MaxEntries : ByIndex(i)
    \/ \E name \in LookupNames : ByName(name)
    \/ \E n \in ReadSizes : Read(n)
    \/ ReadRest

SpecBlock == InitRead /\ [][NextBlock]_vars

(***************************************************************************)
(* The archive as its bytes: the sink of the finished writer parsed back,  *)
(* and what the accepted calls say it must hold.                           *)
(***************************************************************************)
SinkHeader == TreHeader_read(source)

SinkRecords == get_records(source, SinkHeader.header)

\* the name block of the sink, decoded
SinkNames ==
    BlockReader_stream(source,
        BlockReader_new(SinkHeader.header.record_start + SinkHeader.header.record_compressed,
                        SinkHeader.header.name_compressed,
                        SinkHeader.header.name_compression))

\* the record block of the sink, decoded
SinkInfo ==
    BlockReader_stream(source,
        BlockReader_new(SinkHeader.header.record_start,
                        SinkHeader.header.record_compressed,
                        SinkHeader.header.record_compression))

SinkParsed == SinkHeader.ok /\ SinkRecords.ok /\ SinkNames.ok /\ SinkInfo.ok

\* the bytes a block of the given method holds on disk for the stream s
OnDisk(method, s) == IF method = "None" THEN s ELSE ZlibEncode(s)

\* the payload of entry i as stored
Stored(i) == OnDisk(entries[i].compression, entries[i].data)

\* the stored payloads of the first n entries, in call order
StoredUpTo(n) == Concat([i \in 1..n |-> Stored(i)])

\* the names of the first n entries, each followed by a NUL
NamesUpTo(n) == Concat([i \in 1..n |-> entries[i].name \o <<0>>])

RECURSIVE SumCompressed(_, _)
\* the sum of data_compressed over the first n records
SumCompressed(rs, n) ==
    IF n = 0 THEN 0 ELSE rs[n].data_compressed + SumCompressed(rs, n - 1)

\* C2: in every archive finish() produces, header.record_start is 36 plus
\* the sum of data_compressed over all records, and the data_offset of
\* record i is 36 plus the sum of data_compressed over the records before it
\* (payloads are contiguous, in insertion order, right after the header).
OffsetInvariant ==
    pc = "finished" =>
        LET h  == SinkHeader
            rs == SinkRecords
        IN  /\ h.ok
            /\ rs.ok
            /\ Len(rs.records) = Len(entries)
            /\ h.header.record_start =
                   HEADER_SIZE + SumCompressed(rs.records, Len(entries))
            /\ \A i \in 1..Len(entries) :
                   rs.records[i].data_offset =
                       HEADER_SIZE + SumCompressed(rs.records, i - 1)

\* C2: two entries, both with a payload, the first one stored compressed
OffsetInvariantWitness ==
    /\ pc = "finished"
    /\ Len(entries) = 2
    /\ entries[1].compression = "Zlib"
    /\ entries[1].data # << >>
    /\ entries[2].data # << >>
    /\ SinkRecords.records[2].data_offset > HEADER_SIZE + Len(entries[1].data)

\* C9: finish() writes the 36-byte header, the data block, the record
\* block, the name block and the hash block, in that order and with nothing
\* in between; header.records is the number of start_file calls,
\* record_compressed and name_compressed are the on-disk lengths of the
\* record and name blocks (24 * records for an uncompressed record block)
\* and name_uncompressed is the length of the uncompressed name block.
ArchiveLayout ==
    pc = "finished" =>
        LET h      == SinkHeader.header
            n      == Len(entries)
            info   == SinkInfo
            names  == SinkNames
            stored == StoredUpTo(n)
        IN  /\ SinkHeader.ok
            /\ info.ok
            /\ names.ok
            /\ SubSeq(source, 1, HEADER_SIZE) = Header_bytes(h)
            /\ h.records = n
            /\ h.record_compression = writer.header.record_compression
            /\ h.name_compression = writer.header.name_compression
            /\ h.record_start = HEADER_SIZE + Len(stored)
            /\ Slice(source, HEADER_SIZE, Len(stored)) = stored
            /\ Len(info.data) = RECORD_SIZE * n
            /\ Slice(source, h.record_start, h.record_compressed) =
                   OnDisk(h.record_compression, info.data)
            /\ h.record_compression = "None" => h.record_compressed = RECORD_SIZE * n
            /\ h.name_uncompressed = Len(NamesUpTo(n))
            /\ Len(names.data) = h.name_uncompressed
            /\ Slice(source, h.record_start + h.record_compressed, h.name_compressed) =
                   OnDisk(h.name_compression, names.data)
            /\ Len(source) = h.record_start + h.record_compressed
                                 + h.name_compressed + (DIGEST_SIZE * n)

\* C9: two entries with payloads, a compressed record block and a raw name
\* block
ArchiveLayoutWitness ==
    /\ pc = "finished"
    /\ Len(entries) = 2
    /\ entries[1].data # << >>
    /\ entries[2].data # << >>
    /\ writer.header.record_compression = "Zlib"
    /\ writer.header.name_compression = "None"
    /\ SinkHeader.header.record_compressed = (RECORD_SIZE * 2) + ZlibOverhead

RECURSIVE NameOffset(_)
\* the sum of len(name) + 1 over the first n entries
NameOffset(n) == IF n = 0 THEN 0 ELSE Len(entries[n].name) + 1 + NameOffset(n - 1)

\* C10: the uncompressed name block is name_0 NUL name_1 NUL ... in
\* insertion order, and the name_offset of record i is the sum of
\* len(name_j) + 1 over the entries before it, whether the name block is
\* stored raw or compressed.
NameBlockLayout ==
    pc = "finished" =>
        LET rs    == SinkRecords
            names == SinkNames
        IN  /\ SinkHeader.ok
            /\ rs.ok
            /\ names.ok
            /\ names.data = NamesUpTo(Len(entries))
            /\ Len(rs.records) = Len(entries)
            /\ \A i \in 1..Len(entries) :
                   rs.records[i].name_offset = NameOffset(i - 1)

\* C10: two entries under a compressed name block, the first name two
\* bytes long
NameBlockLayoutWitness ==
    /\ pc = "finished"
    /\ Len(entries) = 2
    /\ writer.header.name_compression = "Zlib"
    /\ Len(entries[1].name) = 2
    /\ SinkRecords.records[2].name_offset = 3

\* C8: an entry still open when start_file or finish is called is finalised
\* exactly as by finish_file first: the archive of a run with explicit
\* finish_file calls is byte for byte that of the run without them, and each
\* entry is finalised once (one record, one digest), none twice, none dropped.
ImplicitFinalisation ==
    /\ pc # "panicked"
    /\ pc = "finished" =>
           /\ writer.inner = twin.inner
           /\ ~is_writing_file(writer)
           /\ writer.current_data_block = NoBlock
           /\ writer.stats.info_offset = RECORD_SIZE * Len(entries)
           /\ BlockWriter_total_in(writer.info_block) = RECORD_SIZE * Len(entries)
           /\ BlockWriter_total_in(writer.hash_block) = DIGEST_SIZE * Len(entries)

\* C8: finish called with no entry open after two entries with payloads:
\* the second entry was closed by finish_file, while the twin closed it in
\* finish
ImplicitFinalisationWitness ==
    /\ pc = "finished"
    /\ lastOp[1] = "finish"
    /\ lastOp[2] = FALSE
    /\ Len(entries) = 2
    /\ entries[1].data # << >>
    /\ entries[2].data # << >>
    /\ entries[2].compression = "Zlib"

\* C6: write called while no entry is open fails with "No file has been
\* started", accepts zero bytes and changes nothing in the writer: no
\* payload, record, name or hash buffer grows.
WriteRefused ==
    [][(pc = "writing" /\ lastOp'[1] = "write" /\ ~is_writing_file(writer))
          => /\ lastRes' = << "NoFileStarted", 0 >>
             /\ writer' = writer
             /\ entries' = entries
             /\ pc' = "writing"]_vars

\* C6: a write refused after an entry with a payload was closed by
\* finish_file
WriteRefusedWitness ==
    /\ pc = "writing"
    /\ lastOp[1] = "write"
    /\ lastRes = << "NoFileStarted", 0 >>
    /\ writer.header.records = 1
    /\ entries[1].data # << >>
    /\ ~is_writing_file(writer)

\* the state a refused write leaves behind
AfterRefusedWrite ==
    pc = "writing" /\ lastOp[1] = "write" /\ lastRes[1] = "NoFileStarted"

\* C7 as stated: after a write refused because no entry is open the writer
\* is unusable: no start_file or write that follows succeeds and no entry
\* is added.
WriterTerminalAfterRefusedWrite ==
    [][(AfterRefusedWrite /\ lastOp'[1] \in {"start_file", "write"})
          => /\ lastRes'[1] # "Ok"
             /\ writer'.header.records = writer.header.records]_vars

\* C7: a write refused because no entry is open leaves the writer as it was
\* and usable: is_writing_file() is false, a write that follows is refused
\* again, and a start_file that follows succeeds, opens an entry and adds it
\* to the archive.
WriterUsableAfterRefusedWrite ==
    [][AfterRefusedWrite
          => /\ ~is_writing_file(writer)
             /\ lastOp'[1] = "write" => lastRes' = << "NoFileStarted", 0 >>
             /\ lastOp'[1] = "start_file" =>
                    /\ lastRes' = << "Ok", 0 >>
                    /\ is_writing_file(writer')
                    /\ writer'.header.records = writer.header.records + 1
                    /\ writer'.current_data_block # NoBlock
             /\ lastOp'[1] = "finish" => lastRes' = << "Ok", 0 >>]_vars

\* C7: a write was refused before the first start_file, with room for an
\* entry to be started next
WriterUsableAfterRefusedWriteWitness ==
    /\ AfterRefusedWrite
    /\ writer.header.records = 0
    /\ entries = << >>
    /\ ~is_writing_file(writer)

\* the names given to start_file are pairwise distinct
DistinctNames ==
    \A i, j \in 1..Len(entries) : i # j => entries[i].name # entries[j].name

\* no name given to start_file holds a NUL byte
NulFreeNames ==
    \A i \in 1..Len(entries) : \A k \in 1..Len(entries[i].name) : entries[i].name[k] # 0

\* C1 as stated: entries with pairwise distinct names, written under any
\* combination of methods and finished, are read back as they were written:
\* the archive opens, holds as many entries, the same names, and by_name
\* gives for each name the bytes of the writes made to that entry.
RoundTrip ==
    (pc \in {"opened", "invalid"} /\ DistinctNames) =>
        /\ pc = "opened"
        /\ len(archive) = Len(entries)
        /\ { file_names(archive)[i] : i \in 1..len(archive) } =
               { entries[i].name : i \in 1..Len(entries) }
        /\ \A i \in 1..Len(entries) :
               LET f == by_name(archive, entries[i].name)
               IN  /\ f.res = "Ok"
                   /\ read_to_end(archive, f.file) = [ok |-> TRUE, data |-> entries[i].data]

\* what the code does give: the round trip of entries whose names are
\* distinct and free of NUL bytes
RoundTripOfNulFreeNames ==
    (pc \in {"opened", "invalid"} /\ DistinctNames /\ NulFreeNames) =>
        /\ pc = "opened"
        /\ len(archive) = Len(entries)
        /\ \A i \in 1..Len(entries) :
               LET f == by_name(archive, entries[i].name)
               IN  /\ f.res = "Ok"
                   /\ f.file.data.uncompressed_size = Len(entries[i].data)
                   /\ read_to_end(archive, f.file) = [ok |-> TRUE, data |-> entries[i].data]

\* C3 as stated: for start_file calls with distinct names the archive read
\* back lists the names in call order, by_index(i) and name_for_index(i)
\* both give the i-th name, and this stays so after by_name and by_index
\* calls.
InsertionOrder ==
    (pc \in {"opened", "looked", "read"} /\ DistinctNames) =>
        /\ file_names(archive) = [i \in 1..Len(entries) |-> entries[i].name]
        /\ \A i \in 1..Len(entries) :
               /\ by_index(archive, i - 1).res = "Ok"
               /\ by_index(archive, i - 1).file.data.file_name = entries[i].name
               /\ name_for_index(archive, i - 1) = [some |-> TRUE, name |-> entries[i].name]

\* what the code does give: the insertion order of names that are distinct
\* and free of NUL bytes
InsertionOrderOfNulFreeNames ==
    (pc \in {"opened", "looked", "read"} /\ DistinctNames /\ NulFreeNames) =>
        /\ file_names(archive) = [i \in 1..Len(entries) |-> entries[i].name]
        /\ \A i \in 1..Len(entries) :
               /\ by_index(archive, i - 1).res = "Ok"
               /\ by_index(archive, i - 1).file.data.file_name = entries[i].name
               /\ name_for_index(archive, i - 1) = [some |-> TRUE, name |-> entries[i].name]

\* C4: on an opened archive, for every name n with index_for_name(n) =
\* Some(i), by_name(n) gives the entry reader by_index(i) gives, with the
\* same metadata and the same byte stream; index_for_name(n) is None exactly
\* when by_name(n) fails.  This holds of the calls a run makes as well.
LookupEquivalence ==
    /\ pc = "opened" =>
           \A n \in LookupNames :
               LET at == index_for_name(archive, n)
                   f  == by_name(archive, n)
               IN  IF at.some
                   THEN /\ f.res = "Ok"
                        /\ f = by_index(archive, at.index)
                        /\ read_to_end(archive, f.file) =
                               read_to_end(archive, by_index(archive, at.index).file)
                   ELSE f.res = "FileNotFound"
    /\ (pc \in {"looked", "read"} /\ lastOp[1] = "by_name") =>
           LET at == index_for_name(archive, lastOp[2])
           IN  /\ at.some <=> file.res = "Ok"
               /\ ~at.some <=> file.res = "FileNotFound"
               /\ at.some => file = by_index(archive, at.index)
               /\ pc = "read" =>
                      out = read_to_end(archive, by_index(archive, at.index).file)

\* C4: by_name found the second entry of the archive and its payload,
\* stored compressed, was read
LookupEquivalenceWitness ==
    /\ pc = "read"
    /\ lastOp[1] = "by_name"
    /\ index_for_name(archive, lastOp[2]) = [some |-> TRUE, index |-> 1]
    /\ file.file.data.compression_method = "Zlib"
    /\ out.ok
    /\ out.data # << >>

\* the first 8 bytes of the source are not "EERT5000"
BadMagic == Len(source) >= Len(MAGIC) /\ SubSeq(source, 1, Len(MAGIC)) # MAGIC

\* C5: TreArchive::new on a source whose first 8 bytes differ from
\* "EERT5000" in at least one byte returns Err(InvalidArchive) and gives no
\* archive handle, whatever the bytes after them.
MagicRejection ==
    (pc \in {"opened", "looked", "read", "invalid"} /\ BadMagic) =>
        /\ pc = "invalid"
        /\ lastOp[1] = "new_archive"
        /\ lastRes[1] = "InvalidArchive"
        /\ archive = NoArchive

\* C5: an archive with two entries whose magic differs from "EERT5000" in
\* its last byte only was refused
MagicRejectionWitness ==
    /\ pc = "invalid"
    /\ lastRes[1] = "InvalidArchive"
    /\ Len(entries) = 2
    /\ SubSeq(source, 1, 7) = SubSeq(MAGIC, 1, 7)
    /\ source[8] # MAGIC[8]
    /\ SubSeq(source, 9, Len(source)) \in
           { SubSeq(SeedSource(o, entries), 9, Len(source)) : o \in Options }

\* "hello.txt", and its checksum as the record of the repository's writer
\* test holds it
HelloName == <<104, 101, 108, 108, 111, 46, 116, 120, 116>>
HelloChecksum == <<170, 48, 126, 82>>

Trailer(s, n) == SubSeq(s, (Len(s) - n) + 1, Len(s))

\* C12: every archive finish() produces ends with one 16-byte digest per
\* entry, in entry order, the i-th being the MD5 of the i-th payload as
\* stored (compressed when the entry is), and not of the bytes written to
\* it; an entry nothing was written to has the digest of the empty string,
\* or of the empty zlib stream when it is compressed.
HashTrailer ==
    pc = "finished" =>
        LET n == Len(entries)
        IN  /\ Len(source) >= HEADER_SIZE + (DIGEST_SIZE * n)
            /\ Trailer(source, DIGEST_SIZE * n) = Concat([i \in 1..n |-> Md5(Stored(i))])
            /\ \A i \in 1..n :
                   LET digest == Slice(Trailer(source, DIGEST_SIZE * n),
                                       DIGEST_SIZE * (i - 1), DIGEST_SIZE)
                   IN  /\ entries[i].compression = "Zlib" => digest # Md5(entries[i].data)
                       /\ (entries[i].data = << >> /\ entries[i].compression = "None")
                              => digest = Md5(<< >>)
                       /\ (entries[i].data = << >> /\ entries[i].compression = "Zlib")
                              => digest = Md5(ZlibEncode(<< >>))

\* C12: a compressed entry with a payload followed by a compressed entry
\* nothing was written to
HashTrailerWitness ==
    /\ pc = "finished"
    /\ Len(entries) = 2
    /\ entries[1].compression = "Zlib"
    /\ entries[1].data # << >>
    /\ entries[2].compression = "Zlib"
    /\ entries[2].writes = 0
    /\ Trailer(source, DIGEST_SIZE) = Md5(ZlibEncode(<< >>))

\* the payload written to the entry called name, when names are distinct
PayloadOf(name) ==
    entries[CHOOSE i \in 1..Len(entries) : entries[i].name = name].data

\* the last lookup found nothing
AfterNotFound == pc = "looked" /\ file.res = "FileNotFound"

\* C13: by_index(i) with i >= len() returns Err(FileNotFound(Index(i))) and
\* by_name(s) with s not a name of the archive returns
\* Err(FileNotFound(Name(s))); the archive is as it was after such an error,
\* and a by_index or by_name that follows on an existing entry succeeds and
\* yields that entry's payload.
NotFoundResults ==
    [][/\ (CanLookUp /\ lastOp'[1] = "by_index" /\ lastOp'[2] >= len(archive)) =>
              /\ file'.res = "FileNotFound"
              /\ file'.err = [kind |-> "Index", value |-> lastOp'[2]]
              /\ lastRes'[1] = "FileNotFound"
       /\ (CanLookUp /\ lastOp'[1] = "by_name"
             /\ \A k \in 1..len(archive) : file_names(archive)[k] # lastOp'[2]) =>
              /\ file'.res = "FileNotFound"
              /\ file'.err = [kind |-> "Name", value |-> lastOp'[2]]
              /\ lastRes'[1] = "FileNotFound"
       /\ AfterNotFound =>
              /\ archive' = archive
              /\ source' = source
              /\ (lastOp'[1] = "by_index" /\ lastOp'[2] < len(archive)) =>
                     /\ file'.res = "Ok"
                     /\ read_to_end(archive', file'.file).ok
                     /\ DistinctNames =>
                            read_to_end(archive', file'.file).data =
                                entries[lastOp'[2] + 1].data
              /\ (lastOp'[1] = "by_name"
                    /\ \E k \in 1..len(archive) : file_names(archive)[k] = lastOp'[2]) =>
                     /\ file'.res = "Ok"
                     /\ read_to_end(archive', file'.file).ok
                     /\ (DistinctNames /\ NulFreeNames) =>
                            read_to_end(archive', file'.file).data = PayloadOf(lastOp'[2])
      ]_vars

\* C13: by_index(2) found nothing in an archive of two entries with
\* payloads
NotFoundResultsWitness ==
    /\ AfterNotFound
    /\ lastOp[1] = "by_index"
    /\ lastOp[2] = 2
    /\ file.err = [kind |-> "Index", value |-> 2]
    /\ len(archive) = 2
    /\ entries[1].data # << >>
    /\ entries[2].data # << >>

\* the first entry written under the name
FirstOccurrence(name) ==
    CHOOSE i \in 1..Len(entries) :
        entries[i].name = name /\ \A k \in 1..(i - 1) : entries[k].name # name

\* the names written more than once
RepeatedNames ==
    { entries[i].name : i \in { k \in 1..Len(entries) :
                                   \E l \in 1..Len(entries) :
                                       l # k /\ entries[l].name = entries[k].name } }

\* C14 as stated: when a name occurs at positions i < j of the name block,
\* by_name, and index_for_name followed by by_index, give the record and
\* the payload of the first occurrence i.
FirstOccurrenceWins ==
    (pc = "opened" /\ NulFreeNames) =>
        \A n \in RepeatedNames :
            LET i  == FirstOccurrence(n)
                f  == by_name(archive, n)
                at == index_for_name(archive, n)
                g  == by_index(archive, at.index)
            IN  /\ f.res = "Ok"
                /\ at.some
                /\ g.res = "Ok"
                /\ f.file.data.data_start = HEADER_SIZE + Len(StoredUpTo(i - 1))
                /\ f.file.data.compressed_size = Len(Stored(i))
                /\ f.file.data.uncompressed_size = Len(entries[i].data)
                /\ read_to_end(archive, f.file) = [ok |-> TRUE, data |-> entries[i].data]
                /\ read_to_end(archive, g.file) = [ok |-> TRUE, data |-> entries[i].data]

\* the last entry written under the name
LastOccurrence(name) ==
    CHOOSE i \in 1..Len(entries) :
        entries[i].name = name /\ \A k \in (i + 1)..Len(entries) : entries[k].name # name

\* what the code does give for a repeated name: the position of the first
\* occurrence among the names, with the record and payload of the last one,
\* in an archive of fewer entries than were written
LastOccurrenceWins ==
    (pc = "opened" /\ NulFreeNames) =>
        \A n \in RepeatedNames :
            LET j  == LastOccurrence(n)
                f  == by_name(archive, n)
            IN  /\ f.res = "Ok"
                /\ len(archive) < Len(entries)
                /\ index_for_name(archive, n).index < FirstOccurrence(n)
                /\ f.file.data.data_start = HEADER_SIZE + Len(StoredUpTo(j - 1))
                /\ f.file.data.compressed_size = Len(Stored(j))
                /\ read_to_end(archive, f.file) = [ok |-> TRUE, data |-> entries[j].data]

\* a compression tag of the header of the source is neither 0 nor 2
BadHeaderTag ==
    /\ Len(source) >= HEADER_SIZE
    /\ SubSeq(source, 1, Len(MAGIC)) = MAGIC
    /\ ~ValidTag(ReadLE32(source, 16)) \/ ~ValidTag(ReadLE32(source, 24))

\* the header of the source is read, and among the records it counts one
\* that the record block holds whole has a data_compression that is neither
\* 0 nor 2
BadRecordTag ==
    /\ SinkHeader.ok
    /\ LET info == SinkInfo
           n    == SinkHeader.header.records
       IN  /\ info.ok
           /\ \E i \in 0..(Min(n, Len(info.data) \div RECORD_SIZE) - 1) :
                  ~ValidTag(ReadLE32(info.data, (i * RECORD_SIZE) + 12))

\* the source has been handed to TreArchive::new
Opening == pc \in {"opened", "looked", "read", "invalid"}

\* C15 as stated: a 32-bit value other than 0 and 2 is a parse error
\* wherever a compression method is decoded: TreArchive::new fails with
\* InvalidArchive when one is in the header or in a record, and
\* CompressionMethod::from gives no method for it; decoding never aborts
\* the program.
InvalidTagIsParseError ==
    /\ (Opening /\ (BadHeaderTag \/ BadRecordTag)) =>
           pc = "invalid" /\ lastRes[1] = "InvalidArchive"
    /\ (lastOp[1] = "from_u32" /\ lastOp[2] \notin {0, 2}) => lastRes[1] = "Err"
    /\ pc # "panicked"

\* what the code does give: TreArchive::new refuses a source with an
\* invalid tag in its header or in a record
InvalidTagFailsOpen ==
    (Opening /\ (BadHeaderTag \/ BadRecordTag)) =>
        /\ pc = "invalid"
        /\ lastRes[1] = "InvalidArchive"
        /\ archive = NoArchive

\* a source with an invalid tag in a record, and one with an invalid tag in
\* the header, were refused
InvalidTagFailsOpenReached ==
    pc = "invalid" /\ BadRecordTag /\ Len(entries) = 2

\* what the code does give: CompressionMethod::from panics on a value that
\* is neither 0 nor 2
FromPanics ==
    lastOp[1] = "from_u32" =>
        (lastOp[2] \notin {0, 2} <=> (lastRes[1] = "Panic" /\ pc = "panicked"))

(***************************************************************************)
(* Decoding string tables: a source holding as many value records as key   *)
(* records is handed to StringTableReader::new, possibly after its last    *)
(* byte is lost, and the reader is asked for its length and its entries.   *)
(***************************************************************************)
\* the ids, code-unit strings and keys ("a", "b") of the records
StfIds == {1, 2}
StfValues == { << >>, <<116>>, <<321, 0, 55296>> }
StfKeys == { <<97>>, <<98>> }

ValueRecords == [id : StfIds, runes : StfValues]
KeyRecords == [id : StfIds, name : StfKeys]

\* the tables of up to MaxRecords records of each kind
Tables ==
    UNION { [values : [1..k -> ValueRecords], keys : [1..k -> KeyRecords]] :
                k \in 0..MaxRecords }

\* a value record as the file holds it
ValueRecord_bytes(v) ==
    LE32(v.id) \o <<255, 255, 255, 255>> \o LE32(Len(v.runes))
        \o Concat([i \in 1..Len(v.runes) |-> LE16(v.runes[i])])

\* a key record as the file holds it
KeyRecord_bytes(k) == LE32(k.id) \o LE32(Len(k.name)) \o k.name

\* the file of a table: magic, flag, next index, count, the value records,
\* the key records
StringTable_bytes(t) ==
    LE32(STF_MAGIC) \o <<1>> \o LE32(Len(t.values) + 1) \o LE32(Len(t.values))
        \o Concat([i \in 1..Len(t.values) |-> ValueRecord_bytes(t.values[i])])
        \o Concat([i \in 1..Len(t.keys) |-> KeyRecord_bytes(t.keys[i])])

\* the orders in which a HashMap may hand out the ids
Orders ==
    { o \in [1..Cardinality(StfIds) -> StfIds] :
          \A i, j \in 1..Cardinality(StfIds) : o[i] = o[j] => i = j }

InitStf ==
    /\ \E t \in Tables :
          /\ table = t
          /\ source = StringTable_bytes(t)
    /\ pc = "source"
    /\ lastOp = << "new", << >> >>
    /\ lastRes = << "Ok", 0 >>
    /\ stf = NoReader
    /\ got = NoValue
    /\ writer = Consumed
    /\ twin = Consumed
    /\ entries = << >>
    /\ archive = NoArchive
    /\ file = NoLookup
    /\ out = NoRead
    /\ BlockIdle
    /\ DiffIdle

\* the source loses its last byte before it is decoded
Cut ==
    /\ pc = "source"
    /\ source' = SubSeq(source, 1, Len(source) - 1)
    /\ pc' = "cut"
    /\ lastOp' = << "cut", << >> >>
    /\ lastRes' = << "Ok", 0 >>
    /\ UNCHANGED << table, stf, got >>
    /\ UNCHANGED << treVars, diffVars, blockVars >>

\* StringTableReader::new(source)
StfNew(order) ==
    /\ pc \in {"source", "cut"}
    /\ stf' = StringTableReader_new(source, order)
    /\ pc' = IF stf'.res = "Ok" THEN "decoded" ELSE "invalid"
    /\ lastOp' = << "stf_new", << >> >>
    /\ lastRes' = << stf'.res, 0 >>
    /\ UNCHANGED << source, table, got >>
    /\ UNCHANGED << treVars, diffVars, blockVars >>

\* stf.len()
StfLen ==
    /\ pc = "decoded"
    /\ lastOp' = << "len", << >> >>
    /\ lastRes' = << "Ok", StringTableReader_len(stf) >>
    /\ UNCHANGED << pc, source, table, stf, got >>
    /\ UNCHANGED << treVars, diffVars, blockVars >>

\* stf.by_id(id)
ById(id) ==
    /\ pc = "decoded"
    /\ got' = by_id(stf, id)
    /\ lastOp' = << "by_id", id >>
    /\ lastRes' = << IF got'.some THEN "Some" ELSE "None", 0 >>
    /\ UNCHANGED << pc, source, table, stf >>
    /\ UNCHANGED << treVars, diffVars, blockVars >>

NextStf ==
    \/ Cut
    \/ \E order \in Orders : StfNew(order)
    \/ StfLen
    \/ \E id \in StfKeys \cup {MissingName} : ById(id)

SpecStf == InitStf /\ [][NextStf]_vars

\* the pairs (key string, code units) of the key records and value records
\* of the table that have the same id
Pairs(t) ==
    { << t.keys[i].name, t.values[j].runes >> :
          << i, j >> \in { ij \in (1..Len(t.keys)) \X (1..Len(t.values)) :
                              t.keys[ij[1]].id = t.values[ij[2]].id } }

\* a HashMap as its set of pairs
Graph(m) == { << k, m[k] >> : k \in DOMAIN m }

\* C16 as stated: the decoded string table is exactly the map of the key
\* strings to the values of the records with the same id; a key record
\* without a value record of its id adds nothing and is no error, and a
\* value record without a key record of its id is reached by neither len,
\* get_entries nor by_id.
StfJoin ==
    /\ pc \in {"decoded", "invalid"} /\ source = StringTable_bytes(table)
           => stf.res = "Ok"
    /\ pc = "decoded" =>
           /\ Graph(get_entries(stf)) = Pairs(table)
           /\ StringTableReader_len(stf) = Cardinality({ p[1] : p \in Pairs(table) })
           /\ \A id \in StfKeys \cup {MissingName} :
                  IF \E p \in Pairs(table) : p[1] = id
                  THEN by_id(stf, id).some /\ << id, by_id(stf, id).value >> \in Pairs(table)
                  ELSE ~by_id(stf, id).some

\* no two value records have the same id, no two key records have the same
\* id, and no two key records have the same key string
DistinctRecords(t) ==
    /\ \A i, j \in 1..Len(t.values) : t.values[i].id = t.values[j].id => i = j
    /\ \A i, j \in 1..Len(t.keys) :
           (t.keys[i].id = t.keys[j].id \/ t.keys[i].name = t.keys[j].name) => i = j

\* what the code does give: the join of C16 for tables of distinct records
StfJoinOfDistinctRecords ==
    (pc = "decoded" /\ DistinctRecords(table)) =>
        /\ Graph(get_entries(stf)) = Pairs(table)
        /\ StringTableReader_len(stf) = Cardinality(Pairs(table))

\* a table of a key record that has no value record, and so of a value
\* record that has no key record, was decoded and asked for the key
StfJoinOfDistinctRecordsReached ==
    /\ pc = "decoded"
    /\ Len(table.keys) = 1
    /\ Pairs(table) = {}
    /\ lastOp = << "by_id", table.keys[1].name >>
    /\ ~got.some

\* every key record has a value record of its id
EveryKeyMatched(t) ==
    \A i \in 1..Len(t.keys) : \E j \in 1..Len(t.values) : t.keys[i].id = t.values[j].id

\* the code units of the value record with the id of the key record of `id`
StoredValue(t, id) ==
    LET i == CHOOSE i \in 1..Len(t.keys) : t.keys[i].name = id
        j == CHOOSE j \in 1..Len(t.values) : t.values[j].id = t.keys[i].id
    IN  t.values[j].runes

\* C17: a source of k value records and k key records, ids and key strings
\* pairwise distinct and every key id that of a value record, decodes to a
\* reader of len() = k whose by_id gives, for each key, exactly the code
\* units of the value record of its id, and None for any other key.
DecodeFidelity ==
    (pc = "decoded" /\ DistinctRecords(table) /\ EveryKeyMatched(table)) =>
        /\ StringTableReader_len(stf) = Len(table.keys)
        /\ lastOp[1] = "len" => lastRes[2] = Len(table.keys)
        /\ lastOp[1] = "by_id" =>
               IF \E i \in 1..Len(table.keys) : table.keys[i].name = lastOp[2]
               THEN got = [some |-> TRUE, value |-> StoredValue(table, lastOp[2])]
               ELSE got = [some |-> FALSE, value |-> << >>]

\* by_id gave the code units 321, 0, 55296 of a table of two entries
DecodeFidelityWitness ==
    /\ pc = "decoded"
    /\ DistinctRecords(table)
    /\ EveryKeyMatched(table)
    /\ Len(table.keys) = 2
    /\ lastOp[1] = "by_id"
    /\ got = [some |-> TRUE, value |-> <<321, 0, 55296>>]

(***************************************************************************)
(* Comparing archives: two archives that a writer produced are opened and  *)
(* handed to handle_tre in one of the two modes.                           *)
(***************************************************************************)
\* the names of the entries, in the order they are written: "b", ".stf", "a"
DiffNames == << <<98>>, STF_SUFFIX, <<97>> >>

\* a string table of the one entry "a" with the code units v
OneEntry(v) ==
    StringTable_bytes([values |-> << [id |-> 1, runes |-> v] >>,
                       keys   |-> << [id |-> 1, name |-> <<97>>] >>])

\* the payloads an entry of a name may have: for ".stf" two string tables
\* of the same length and a byte that is none
DiffPayloads(name) ==
    IF name = STF_SUFFIX THEN { OneEntry(<<116>>), OneEntry(<<321>>), <<1>> }
    ELSE IF name = <<97>> THEN { <<1>>, <<2>>, <<1, 2>> }
    ELSE { <<1>> }

\* no entry of a name: a sequence that is no payload
Absent == << 256 >>

\* the contents of an archive: per name no entry or its payload
DiffContents ==
    { c \in [1..Len(DiffNames) ->
                {Absent} \cup UNION { DiffPayloads(DiffNames[i]) : i \in 1..Len(DiffNames) }] :
          \A i \in 1..Len(DiffNames) : c[i] = Absent \/ c[i] \in DiffPayloads(DiffNames[i]) }

\* the calls that write the contents c, every entry with the given method
DiffEntries(c, method) ==
    LET present == SelectSeq([i \in 1..Len(DiffNames) |-> i], LAMBDA i : c[i] # Absent)
    IN  [k \in 1..Len(present) |->
            [name |-> DiffNames[present[k]], compression |-> method,
             data |-> c[present[k]], writes |-> 1]]

\* the archive of the contents c as TreArchive::new opens it
DiffArchive(options, c, method) ==
    TreArchive_new(SeedSource(options, DiffEntries(c, method))).archive

\* the path of the left archive, "l"
DiffLabel == <<108>>

InitDiff ==
    /\ \E cl \in DiffContents, cr \in DiffContents, options \in Options, method \in Methods :
          /\ left = DiffArchive([record_compression |-> "None", name_compression |-> "None"],
                                cl, "None")
          /\ right = DiffArchive(options, cr, method)
    /\ mode \in {"Symantic", "Full"}
    /\ difference = NoDifference
    /\ pc = "archives"
    /\ lastOp = << "new", << >> >>
    /\ lastRes = << "Ok", 0 >>
    /\ source = << >>
    /\ writer = Consumed
    /\ twin = Consumed
    /\ entries = << >>
    /\ archive = NoArchive
    /\ file = NoLookup
    /\ out = NoRead
    /\ BlockIdle
    /\ StfIdle

\* self.handle_tre(name, &mut left, &mut right)
HandleTre ==
    /\ pc = "archives"
    /\ difference' = handle_tre(DiffLabel, left, right, mode)
    /\ pc' = "compared"
    /\ lastOp' = << "handle_tre", << >> >>
    /\ lastRes' = << difference'.res, 0 >>
    /\ UNCHANGED << mode, left, right, source >>
    /\ UNCHANGED << treVars, stfVars, blockVars >>

NextDiff == HandleTre

SpecDiff == InitDiff /\ [][NextDiff]_vars

\* the names of an archive
Names(a) == { file_names(a)[i] : i \in 1..Len(file_names(a)) }

\* the payload of the entry of a name of an archive
Payload(a, name) == read_to_end(a, by_name(a, name).file).data

\* the values of the children of a change that have the tag and key "files"
FileLevel(c, tag) ==
    IF c.tag = "None" THEN {}
    ELSE { c.children[i].value :
               i \in { k \in 1..Len(c.children) :
                           c.children[k].tag = tag /\ c.children[k].key = "files" } }

\* the sequence of names ascends
Ascending(names) ==
    \A i \in 1..(Len(names) - 1) : String_cmp(names[i], names[i + 1]) = "Less"

\* C18: the file-level Added changes of a comparison are exactly the names
\* only the right archive has, its file-level Removed changes exactly the
\* names only the left archive has, no name is both, and the names both
\* have are compared one by one in ascending order, up to the first that
\* cannot be compared.
DiffNameSets ==
    pc = "compared" =>
        /\ difference.res = "Ok" =>
               /\ FileLevel(difference.change, "Added") = Names(right) \ Names(left)
               /\ FileLevel(difference.change, "Removed") = Names(left) \ Names(right)
               /\ FileLevel(difference.change, "Added")
                      \cap FileLevel(difference.change, "Removed") = {}
               /\ { difference.compared[i] : i \in 1..Len(difference.compared) }
                      = Names(left) \cap Names(right)
        /\ Ascending(difference.compared)
        /\ LET shared == Sorted(Names(left) \cap Names(right))
           IN  /\ Len(difference.compared) <= Len(shared)
               /\ difference.compared = SubSeq(shared, 1, Len(difference.compared))

\* two archives with a name only the left has, a name only the right has and
\* two names both have were compared
DiffNameSetsWitness ==
    /\ pc = "compared"
    /\ difference.res = "Ok"
    /\ FileLevel(difference.change, "Added") # {}
    /\ FileLevel(difference.change, "Removed") # {}

\* two archives with two names in common were compared
DiffNameOrderWitness ==
    /\ pc = "compared"
    /\ difference.res = "Ok"
    /\ Len(difference.compared) = 2
    /\ FileLevel(difference.change, "Added") = { <<98>> }

\* the archives have the same names and, name by name, the same payloads,
\* and in Full mode the same record compression, record block size and
\* name block size
Equivalent ==
    /\ Names(left) = Names(right)
    /\ \A n \in Names(left) : Payload(left, n) = Payload(right, n)
    /\ mode = "Full" =>
           /\ get_record_compression(left) = get_record_compression(right)
           /\ get_record_block_size(left) = get_record_block_size(right)
           /\ get_name_block_size(left) = get_name_block_size(right)

\* C19 as stated: handle_tre returns None for equivalent archives, in both
\* modes.
EquivalentIsEmpty ==
    (pc = "compared" /\ Equivalent) =>
        difference.res = "Ok" /\ difference.change = NoChange

\* every entry of the left archive with a name ending in ".stf" decodes
StfEntriesDecode ==
    \A n \in Names(left) :
        ends_with(n, STF_SUFFIX) => StringTableReader_decode(Payload(left, n)).ok

\* what the code does give: None for equivalent archives whose ".stf"
\* entries decode, and an error for the others
EquivalentIsEmptyOrError ==
    (pc = "compared" /\ Equivalent) =>
        IF StfEntriesDecode
        THEN difference.res = "Ok" /\ difference.change = NoChange
        ELSE difference.res = "Err"

\* equivalent archives of three entries, stored in different ways, were
\* compared in Full mode and in Symantic mode
EquivalentIsEmptyReached ==
    /\ pc = "compared"
    /\ Equivalent
    /\ StfEntriesDecode
    /\ Cardinality(Names(left)) = 3
    /\ get_record_compression(right) = "None"
    /\ difference.change = NoChange

\* C20 as stated: a name of both archives whose two payloads differ in a
\* byte makes the result of the comparison, when it ends without an error,
\* a change with a file-level Modified for the name, whatever the lengths
\* of the payloads and the name.
DiffComparesBytes ==
    (pc = "compared" /\ difference.res = "Ok") =>
        \A n \in Names(left) \cap Names(right) :
            Payload(left, n) # Payload(right, n) =>
                /\ difference.change # NoChange
                /\ n \in FileLevel(difference.change, "Modified")

\* what the code does give: a file-level Modified for a shared name exactly
\* when the lengths of its payloads differ or, for a name ending in ".stf",
\* the decoded tables differ
DiffComparesSizes ==
    (pc = "compared" /\ difference.res = "Ok") =>
        \A n \in Names(left) \cap Names(right) :
            n \in FileLevel(difference.change, "Modified") <=>
                \/ Len(Payload(left, n)) # Len(Payload(right, n))
                \/ /\ ends_with(n, STF_SUFFIX)
                   /\ StringTableReader_decode(Payload(left, n)).table
                          # StringTableReader_decode(Payload(right, n)).table

\* payloads of different lengths, and string tables of the same length
\* with different values, were reported
DiffComparesSizesReached ==
    /\ pc = "compared"
    /\ difference.res = "Ok"
    /\ FileLevel(difference.change, "Modified") = { <<97>>, STF_SUFFIX }
    /\ Len(Payload(left, STF_SUFFIX)) = Len(Payload(right, STF_SUFFIX))

(***************************************************************************)
(* The sizes of the records.                                               *)
(***************************************************************************)
\* C21: the record of every entry has for data_uncompressed the number of
\* bytes the write calls of the entry accepted (0 without one) and for
\* data_compressed the length of its payload as stored, the same number
\* when the entry is stored with None; an entry without bytes after one
\* with bytes has the sizes of an entry without bytes.
RecordSizes ==
    /\ pc = "finished" =>
           LET rs == SinkRecords
           IN  /\ rs.ok
               /\ Len(rs.records) = Len(entries)
               /\ \A i \in 1..Len(entries) :
                      /\ rs.records[i].data_uncompressed = Len(entries[i].data)
                      /\ rs.records[i].data_compressed = Len(Stored(i))
                      /\ entries[i].compression = "None" =>
                             rs.records[i].data_compressed
                                 = rs.records[i].data_uncompressed
    /\ (pc = "writing" /\ ~writer.writing_to_file /\ entries # << >>) =>
           /\ writer.record.data_uncompressed = Len(entries[Len(entries)].data)
           /\ writer.record.data_compressed = Len(Stored(Len(entries)))

\* C21: an entry of three bytes, stored compressed, is followed by an entry
\* without a write call
RecordSizesWitness ==
    /\ pc = "finished"
    /\ Len(entries) = 2
    /\ Len(entries[1].data) = 3
    /\ entries[1].compression = "Zlib"
    /\ entries[2].writes = 0
    /\ SinkRecords.records[2].data_uncompressed = 0
    /\ SinkRecords.records[1].data_compressed = 3 + ZlibOverhead

(***************************************************************************)
(* The sink before finish.                                                 *)
(***************************************************************************)
\* C22: whatever new, start_file, write and finish_file calls were made,
\* the sink holds what it held when the writer was made, nothing; it gets
\* its bytes in finish, and a writer that is never finished leaves it so.
BufferedUntilFinish ==
    /\ pc \in {"writing", "panicked"} =>
           /\ writer.inner = << >>
           /\ twin.inner = << >>
           /\ source = << >>
    /\ pc = "finished" => (lastOp[1] = "finish" /\ writer.inner = source)

\* C22: two entries were written, the first finished by finish_file, and
\* the writer buffers their payloads while its sink is empty
BufferedUntilFinishWitness ==
    /\ pc = "writing"
    /\ Len(entries) = 2
    /\ entries[1].data # << >>
    /\ entries[2].data # << >>
    /\ writer.data_block.data = entries[1].data
    /\ writer.current_data_block.data = entries[2].data
    /\ writer.inner = << >>

(***************************************************************************)
(* Entry readers read call by call.                                        *)
(***************************************************************************)
\* an entry reader is out
ReaderOut == pc \in {"looked", "block"} /\ file.res = "Ok"

\* the last call on the reader found its stream at its end
AtEnd ==
    /\ pc = "block"
    /\ \/ lastOp[1] = "read_to_end"
       \/ lastOp[1] = "read" /\ lastOp[2] > 0 /\ lastRes[2] = 0

\* C23: whatever lookups were made before and however much of their readers
\* was read, the reader a lookup returns stands at the first byte of the
\* payload of its entry, what it has yielded is at every moment the
\* beginning of that payload as a reader of an archive never touched
\* yields it, and at its end all of it.
FreshReaderPerCall ==
    ReaderOut =>
        LET whole == read_to_end(archive, file.file)
        IN  /\ pc = "looked" =>
                   /\ position = file.file.data.data_start
                   /\ block.limit = file.file.data.compressed_size
                   /\ out.data = << >>
            /\ whole.ok => out.data = Slice(whole.data, 0, Len(out.data))
            /\ (whole.ok /\ AtEnd) => (out.ok /\ out.data = whole.data)
            /\ (~whole.ok /\ pc = "block" /\ lastOp[1] = "read_to_end") => ~out.ok

\* C23: a reader of which part was read was replaced, and the reader of the
\* next lookup, read to its end, yielded a payload of several bytes
FreshReaderPerCallWitness ==
    /\ ReaderOut
    /\ dropped = << "part" >>
    /\ lastOp[1] = "read_to_end"
    /\ out.ok
    /\ Len(out.data) >= 2
    /\ out.data = read_to_end(archive, file.file).data

\* C24: a reader made with (start, limit, method) has consumed the bytes of
\* the source from start up to its position, which never passes
\* start + limit; without compression it has yielded exactly those bytes,
\* and at its end the bytes of [start, start + limit) that the source has.
LengthCap ==
    ReaderOut =>
        LET start == file.file.data.data_start
            limit == file.file.data.compressed_size
            taken == Slice(source, start, position - start)
        IN  /\ start <= position
            /\ position <= start + limit
            /\ block.limit = limit - (position - start)
            /\ block.kind = "Raw" => out.data = taken
            /\ block.kind = "Compressed" => block.buf = taken
            /\ (block.kind = "Raw" /\ AtEnd) => out.data = Slice(source, start, limit)

\* C24: a reader without compression was asked for more than its limit
\* leaves and stopped at start + limit, before bytes the source still has
LengthCapWitness ==
    /\ ReaderOut
    /\ block.kind = "Raw"
    /\ lastOp[1] = "read"
    /\ lastOp[2] > lastRes[2]
    /\ lastRes[2] > 0
    /\ position = file.file.data.data_start + file.file.data.compressed_size
    /\ position < Len(source)

(***************************************************************************)
(* The errors of TreArchive::new.                                          *)
(***************************************************************************)
\* C25 as stated: when the source ends early, or a block of it does not
\* decode, while TreArchive::new reads the header, the record block or the
\* name block, the caller receives the I/O error itself.
IoErrorsPropagate ==
    (pc = "invalid" /\ get_metadata_err(source) = "Io") => lastRes[1] = "Io"

\* what TreArchive::new gives: InvalidArchive exactly when get_metadata
\* returned an error, whichever it was
IoErrorsBecomeInvalidArchive ==
    Opening =>
        /\ lastOp[1] = "new_archive" =>
               (lastRes[1] = "InvalidArchive" <=> get_metadata_err(source) # "none")
        /\ pc = "invalid" <=> get_metadata_err(source) # "none"

\* an archive whose name block ends before its names do was refused as
\* InvalidArchive
IoErrorsBecomeInvalidArchiveReached ==
    /\ pc = "invalid"
    /\ TreHeader_read(source).ok
    /\ get_records(source, TreHeader_read(source).header).ok
    /\ ~get_names(source, TreHeader_read(source).header).ok
    /\ get_metadata_err(source) = "Io"
    /\ lastRes[1] = "InvalidArchive"

(***************************************************************************)
(* Comparing two string tables: handle_file, for a name ending in ".stf"   *)
(* and two payloads of the same length, once the payloads are decoded.     *)
(* The HashMaps yield their keys in any order.                             *)
(***************************************************************************)
TableKeys == { <<97>>, <<98>>, <<99>> }
TableValues == { <<116>>, <<117>> }

\* the string tables compared
StringTables == UNION { [ks -> TableValues] : ks \in SUBSET TableKeys }

\* the orders a HashMap of the keys ks may yield them in
KeyOrders(ks) ==
    { o \in [1..Cardinality(ks) -> ks] : \A i, j \in 1..Cardinality(ks) : o[i] = o[j] => i = j }

InitTables ==
    /\ left \in StringTables
    /\ right \in StringTables
    /\ mode \in {"Symantic", "Full"}
    /\ difference = NoDifference
    /\ pc = "tables"
    /\ lastOp = << "new", << >> >>
    /\ lastRes = << "Ok", 0 >>
    /\ source = << >>
    /\ writer = Consumed
    /\ twin = Consumed
    /\ entries = << >>
    /\ archive = NoArchive
    /\ file = NoLookup
    /\ out = NoRead
    /\ BlockIdle
    /\ StfIdle

\* the end of handle_file: self.handle_stf_file(&stf_left, &stf_right) and,
\* when it found changes, with_children on the Modified of the file
FileChanges(lk, rk) ==
    LET changes == handle_stf_file(left, right, mode, lk, rk)
    IN  IF changes # << >>
        THEN with_children(get_or_insert(NoChange, "files", STF_SUFFIX), changes)
        ELSE NoChange

HandleStfFile(lk, rk) ==
    /\ pc = "tables"
    /\ difference' = [res |-> "Ok", change |-> FileChanges(lk, rk), compared |-> << >>]
    /\ pc' = "tabled"
    /\ lastOp' = << "handle_stf_file", << lk, rk >> >>
    /\ lastRes' = << "Ok", 0 >>
    /\ UNCHANGED << mode, left, right, source >>
    /\ UNCHANGED << treVars, stfVars, blockVars >>

NextTables ==
    \E lk \in KeyOrders(DOMAIN left), rk \in KeyOrders(DOMAIN right) : HandleStfFile(lk, rk)

SpecTables == InitTables /\ [][NextTables]_vars

\* the variants of Change in the order of their declaration
ChangeKinds == << "Added", "Removed", "Comparison", "Context", "Modified" >>
KindOf(c) == CHOOSE i \in 1..Len(ChangeKinds) : ChangeKinds[i] = c.tag

\* the changes of v ascend by kind, then key, then value
OrderedByKindKeyValue(v) ==
    \A i, j \in 1..Len(v) :
        i < j =>
            \/ KindOf(v[i]) < KindOf(v[j])
            \/ /\ KindOf(v[i]) = KindOf(v[j])
               /\ Then(Key_cmp(v[i].key, v[j].key), String_cmp(v[i].value, v[j].value))
                      \in {"Less", "Equal"}

U32Samples ==
    { << 0, 0, 0, 0 >>, << 1, 0, 0, 0 >>, << 36, 0, 0, 0 >>, << 255, 0, 0, 0 >>,
      << 0, 1, 0, 0 >>, << 255, 255, 0, 0 >>, << 0, 0, 0, 64 >>, << 255, 255, 255, 127 >>,
      << 0, 0, 0, 128 >>, << 1, 0, 0, 128 >>, << 220, 255, 255, 255 >>,
      << 255, 255, 255, 255 >> }

\* the header of an archive without entries with the two fields given
CraftedHeader(record_start, record_compressed) ==
    MAGIC \o LE32(0) \o record_start \o LE32(MethodTag("None")) \o record_compressed
          \o LE32(MethodTag("None")) \o LE32(0) \o LE32(0)

InitNames ==
    /\ \E a \in U32Samples, b \in U32Samples : source = CraftedHeader(a, b)
    /\ pc = "header"
    /\ lastOp = << "new", << >> >>
    /\ lastRes = << "Ok", 0 >>
    /\ writer = Consumed
    /\ twin = Consumed
    /\ entries = << >>
    /\ archive = NoArchive
    /\ file = NoLookup
    /\ out = NoRead
    /\ BlockIdle
    /\ StfIdle
    /\ DiffIdle

\* the bytes of header.record_start and header.record_compressed
RecordStartBytes == SubSeq(source, 13, 16)
RecordCompressedBytes == SubSeq(source, 21, 24)

\* Self::get_names(reader, &header): TreBlockReader::new seeks the source to
\* the start it computed; with no record counted no name is read
GetNames ==
    /\ pc = "header"
    /\ \E r \in get_names_start(RecordStartBytes, RecordCompressedBytes) :
          /\ lastRes' = << r.res, r.start >>
          /\ pc' = IF r.res = "Ok" THEN "sought" ELSE "panicked"
    /\ lastOp' = << "get_names", << >> >>
    /\ UNCHANGED << writer, twin, entries, source, archive, file, out >>
    /\ UNCHANGED << stfVars, diffVars, blockVars >>

NextNames == GetNames

SpecNames == InitNames /\ [][NextNames]_vars

\* record_start + record_compressed as a u64, the sum of the mathematics
ExactSum == LET r == U32_add(RecordStartBytes, RecordCompressedBytes, 0)
            IN  r.sum \o << r.carry, 0, 0, 0 >>

\* C27 as stated: for every pair of 32-bit values of record_start and
\* record_compressed the name block is read at their exact sum; the sum is
\* not taken modulo 2^32 and computing it does not abort.
NameBlockPosition ==
    (pc \in {"sought", "panicked"} /\ lastOp[1] = "get_names") =>
        /\ lastRes[1] = "Ok"
        /\ lastRes[2] = ExactSum

\* what the code gives: the exact sum when it is below 2^32, and otherwise
\* a panic or the sum less 2^32
NameBlockPositionWraps ==
    (pc \in {"sought", "panicked"} /\ lastOp[1] = "get_names") =>
        IF ExactSum[5] = 0
        THEN lastRes[1] = "Ok" /\ lastRes[2] = ExactSum
        ELSE \/ lastRes[1] = "Panic"
             \/ lastRes[1] = "Ok" /\ lastRes[2] = SubSeq(ExactSum, 1, 4) \o << 0, 0, 0, 0 >>

\* 2^32 - 1 and 1 were added and the source was sought to 0
NameBlockPositionWrapsReached ==
    /\ pc = "sought"
    /\ RecordStartBytes = << 255, 255, 255, 255 >>
    /\ RecordCompressedBytes = << 1, 0, 0, 0 >>
    /\ lastRes[2] = << 0, 0, 0, 0, 0, 0, 0, 0 >>

(***************************************************************************)
(* The entry that is open.                                                 *)
(***************************************************************************)
\* C28: whatever calls were made on the writer, is_writing_file() is true
\* exactly when the block of a current entry exists, and no call panicked:
\* the assert of start_file and the expects of finish_file and write held.
WriterStateInvariant ==
    /\ pc # "panicked"
    /\ lastRes[1] # "Panic"
    /\ pc = "writing" =>
           /\ is_writing_file(writer) <=> writer.current_data_block # NoBlock
           /\ is_writing_file(twin) <=> twin.current_data_block # NoBlock

\* C28: start_file finished the entry before it, which had taken bytes, and
\* opened the second entry; its assert held
WriterStateInvariantWitness ==
    /\ pc = "writing"
    /\ lastOp[1] = "start_file"
    /\ lastRes[1] = "Ok"
    /\ Len(entries) = 2
    /\ entries[1].writes > 0
    /\ is_writing_file(twin)
    /\ twin.current_data_block = BlockWriter_new(entries[2].compression)
    /\ twin.header.records = 2

(***************************************************************************)
(* The number of entries of an opened archive.                             *)
(***************************************************************************)
\* the archive is open
Opened == pc \in {"opened", "looked", "read", "block"}

\* C29 as stated: an archive TreArchive::new opened has as many entries as
\* its header counts records: len() is header.records, file_names() yields
\* that many names and by_index succeeds below it.
EntryCount ==
    Opened =>
        LET n == archive.shared.header.records
        IN  /\ len(archive) = n
            /\ Len(file_names(archive)) = n
            /\ \A i \in 0..(n - 1) : by_index(archive, i).res = "Ok"

\* what the code gives: as many entries as the names read from the name
\* block, decoded, are different
EntryCountOfDistinctNames ==
    Opened =>
        LET header == archive.shared.header
            names  == get_names(archive.reader, header).names
        IN  /\ Len(names) = header.records
            /\ len(archive) = Cardinality({ FromUtf8Lossy(names[i]) : i \in 1..Len(names) })
            /\ Len(file_names(archive)) = len(archive)
            /\ \A i \in 0..MaxEntries : by_index(archive, i).res = "Ok" <=> i < len(archive)

\* an archive of two records with one name was opened: it has one entry
EntryCountOfDistinctNamesReached ==
    /\ pc = "opened"
    /\ archive.shared.header.records = 2
    /\ len(archive) = 1
    /\ by_index(archive, 1).res = "FileNotFound"

(***************************************************************************)
(* Decoding the same string table again.                                   *)
(***************************************************************************)
\* C30 as stated: decoding the same bytes again gives the same map, whatever
\* order the HashMap of the key records is iterated in, also when two value
\* records have one id or two key records of different ids have one key
\* string.
DecodeDeterministic ==
    pc \in {"decoded", "invalid"} =>
        \A order \in Orders : StringTableReader_new(source, order) = stf

\* two key records of different ids, each with a value record, hold the
\* same key string
SharedKeyString(t) ==
    \E i, j \in 1..Len(t.keys) :
        /\ t.keys[i].id # t.keys[j].id
        /\ t.keys[i].name = t.keys[j].name
        /\ \E v, w \in 1..Len(t.values) :
               /\ t.values[v].id = t.keys[i].id
               /\ t.values[w].id = t.keys[j].id
               /\ t.values[v].runes # t.values[w].runes

\* what the code gives: the same map again unless two key records of
\* different ids share a key string and their values differ
DecodeDeterministicForDistinctKeys ==
    (pc \in {"decoded", "invalid"} /\ source = StringTable_bytes(table)
         /\ ~SharedKeyString(table)) =>
        \A order \in Orders : StringTableReader_new(source, order) = stf

\* a table with two value records of one id was decoded, the later record
\* giving the value
DecodeDeterministicForDistinctKeysReached ==
    /\ pc = "decoded"
    /\ source = StringTable_bytes(table)
    /\ Len(table.values) = 2
    /\ table.values[1].id = table.values[2].id
    /\ table.values[1].runes # table.values[2].runes
    /\ \E k \in DOMAIN get_entries(stf) : get_entries(stf)[k] = table.values[2].runes

====
